---------------------------- MODULE Spec2Model ----------------------------
(***************************************************************************)
(* A model of the ETL query core: the execution engine of                  *)
(* src/app/etl/core.py (transform_select, join and the module-level        *)
(* transformed_data slot) and the plan builder of src/app/compiler/yacc.py *)
(* (p_select, which lowers a parsed SELECT into a sequence of extract /    *)
(* join / transform_select / load statements).                             *)
(*                                                                         *)
(* Text is a sequence of one-character strings, so that the code's string  *)
(* operations (startswith, slicing, int(), split) are computed and not     *)
(* assumed.  A pandas DataFrame is a record of its column names and its    *)
(* rows; Python's None is the record NoneVal.                              *)
(***************************************************************************)
EXTENDS Integers, Sequences, FiniteSets, TLC

VARIABLES
    transformed_data,   \* core.py:15, the module-level slot
    pc,                 \* position of the running call
    call,               \* the call being served: its name and arguments
    data,               \* transform_select's local `data`
    are_select_columns_aggregation,   \* transform_select's local flag
    ret,                \* value returned to the caller (NoReturn while none)
    err,                \* kind of the exception raised ("none" while none)
    stages,             \* stages of transform_select that have run, in order
    stmt,               \* the parsed SELECT handed to p_select
    plan,               \* the statements p_select generated, in order
    ip,                 \* index of the next plan statement to execute
    env,                \* variables of the executing plan
    log,                \* engine calls made by the executing plan, in order
    tokens,             \* the token stream handed to the parser
    raised,             \* arguments of the exception the parser raised
    queries             \* the queries sharing the process: whose call runs, and what each got

vars == <<transformed_data, pc, call, data, are_select_columns_aggregation,
          ret, err, stages, stmt, plan, ip, env, log, tokens, raised,
          queries>>

engineVars == <<transformed_data, pc, call, data,
                are_select_columns_aggregation, ret, err, stages>>
planVars == <<stmt, plan, ip, env, log, tokens, raised, queries>>

---------------------------------------------------------------------------
(* Bounds of the model *)

\* rows of a relation handed to transform_select
MaxRows == 2
\* JOIN clauses of a statement
MaxJoins == 2
\* tokens of a stream handed to the parser
MaxTokens == 5

---------------------------------------------------------------------------
(* Python values *)

NoneVal == [t |-> "None"]
NoReturn == [t |-> "NoReturn"]

IsNone(x) == x.t = "None"

\* a DataFrame: ordered column names, ordered rows aligned to them
DataFrame(cols, rows) == [t |-> "DataFrame", cols |-> cols, rows |-> rows]

\* pd.DataFrame(): no columns and no rows
NewDataFrame == DataFrame(<<>>, <<>>)

\* DataFrame.empty: true when either axis has length 0
IsEmpty(df) == Len(df.cols) = 0 \/ Len(df.rows) = 0

\* DataFrame.copy(): a new frame with the same columns and rows
Copy(df) == DataFrame(df.cols, df.rows)

\* the missing value a merge fills unmatched cells with
NaN == -1

\* text
Concat(s, t) == s \o t

Range(s) == {s[i] : i \in 1..Len(s)}

\* position (1-based) of the first occurrence of x in s, 0 when absent
RECURSIVE IndexFrom(_, _, _)
IndexFrom(s, x, i) ==
    IF i > Len(s) THEN 0
    ELSE IF s[i] = x THEN i
    ELSE IndexFrom(s, x, i + 1)

IndexOf(s, x) == IndexFrom(s, x, 1)

\* position of x in a table without repetitions, 0 when absent
Lookup(table, x) ==
    IF x \in Range(table) THEN CHOOSE k \in 1..Len(table) : table[k] = x ELSE 0

\* F of v, with v worked out once, before F is
With(v, F(_)) == CHOOSE r \in {F(x) : x \in {v}} : TRUE

Min(a, b) == IF a < b THEN a ELSE b
Max(a, b) == IF a > b THEN a ELSE b

---------------------------------------------------------------------------
(* join, core.py:115-157 *)

valid_join_types == <<"inner", "left", "right", "outer">>

SuffixLeft == <<"_", "l", "e", "f", "t">>
SuffixRight == <<"_", "r", "i", "g", "h", "t">>

\* pandas merge: column names of the result.  A name on both sides gets
\* the side's suffix, unless it is the key on both sides (one key column).
MergeCols(df1, df2, left_col, right_col) ==
    LET both == Range(df1.cols) \cap Range(df2.cols)
        shared == left_col = right_col
        clash(c) == c \in both /\ ~(shared /\ c = left_col)
        lcols == [i \in 1..Len(df1.cols) |->
                    IF clash(df1.cols[i]) THEN Concat(df1.cols[i], SuffixLeft)
                    ELSE df1.cols[i]]
        rkeep == SelectSeq(df2.cols, LAMBDA c : ~(shared /\ c = right_col))
        rcols == [i \in 1..Len(rkeep) |->
                    IF clash(rkeep[i]) THEN Concat(rkeep[i], SuffixRight)
                    ELSE rkeep[i]]
    IN lcols \o rcols

\* the cells of a right row that the result keeps
RightCells(df2, left_col, right_col, row) ==
    LET k == IndexOf(df2.cols, right_col)
        keep == {i \in 1..Len(row) : ~(left_col = right_col /\ i = k)}
        pick[i \in 0..Len(row)] ==
            IF i = 0 THEN <<>>
            ELSE IF i \in keep THEN Append(pick[i - 1], row[i])
            ELSE pick[i - 1]
    IN pick[Len(row)]

NaNs(n) == [i \in 1..n |-> NaN]

\* left cells for a right row with no match: all missing, except the shared key
LeftCellsFor(df1, df2, left_col, right_col, rrow) ==
    [i \in 1..Len(df1.cols) |->
        IF left_col = right_col /\ df1.cols[i] = left_col
        THEN rrow[IndexOf(df2.cols, right_col)]
        ELSE NaN]

\* the concatenation of F(s[1]), F(s[2]), ...
FlatMap(s, F(_)) ==
    LET acc[i \in 0..Len(s)] ==
            IF i = 0 THEN <<>> ELSE acc[i - 1] \o F(s[i])
    IN acc[Len(s)]

\* s with x inserted after the last element whose key is <= x's (s sorted)
InsertBy(s, x, Key(_)) ==
    LET n == Cardinality({i \in 1..Len(s) : Key(s[i]) <= Key(x)})
    IN SubSeq(s, 1, n) \o <<x>> \o SubSeq(s, n + 1, Len(s))

\* stable ascending sort of s by the integer Key
SortBy(s, Key(_)) ==
    LET acc[i \in 0..Len(s)] ==
            IF i = 0 THEN <<>> ELSE InsertBy(acc[i - 1], s[i], Key)
    IN acc[Len(s)]

MergeRows(df1, df2, left_col, right_col, how) ==
    LET li == IndexOf(df1.cols, left_col)
        ri == IndexOf(df2.cols, right_col)
        rc(r) == RightCells(df2, left_col, right_col, r)
        nright == Len(df2.cols) - (IF left_col = right_col THEN 1 ELSE 0)
        matchesOfLeft(l) == SelectSeq(df2.rows, LAMBDA r : r[ri] = l[li])
        matchesOfRight(r) == SelectSeq(df1.rows, LAMBDA l : l[li] = r[ri])
        pairsOfLeft(l) ==
            [i \in 1..Len(matchesOfLeft(l)) |-> l \o rc(matchesOfLeft(l)[i])]
        leftKeep(l) ==
            IF matchesOfLeft(l) = <<>> THEN << l \o NaNs(nright) >>
            ELSE pairsOfLeft(l)
        rightKeep(r) ==
            IF matchesOfRight(r) = <<>>
            THEN << LeftCellsFor(df1, df2, left_col, right_col, r) \o rc(r) >>
            ELSE [i \in 1..Len(matchesOfRight(r)) |-> matchesOfRight(r)[i] \o rc(r)]
        rightOnly(r) ==
            IF matchesOfRight(r) = <<>>
            THEN << LeftCellsFor(df1, df2, left_col, right_col, r) \o rc(r) >>
            ELSE <<>>
        \* the key a row of the outer result is sorted by
        keyOf(row) ==
            IF row[li] # NaN \/ left_col = right_col THEN row[li]
            ELSE row[Len(df1.cols) + ri]
    IN CASE how = "inner" -> FlatMap(df1.rows, pairsOfLeft)
         [] how = "left"  -> FlatMap(df1.rows, leftKeep)
         [] how = "right" -> FlatMap(df2.rows, rightKeep)
         [] OTHER ->
              SortBy(FlatMap(df1.rows, leftKeep) \o FlatMap(df2.rows, rightOnly),
                     keyOf)

\* df1.merge(df2, left_on=left_col, right_on=right_col, how=how,
\*           suffixes=("_left", "_right"))
Merge(df1, df2, left_col, right_col, how) ==
    DataFrame(MergeCols(df1, df2, left_col, right_col),
              MergeRows(df1, df2, left_col, right_col, how))

\* a raise that would reset the slot on its way out
RaiseClearsSlot(kind, slot) == [err |-> kind, ret |-> NoReturn, slot |-> NoneVal]

\* what a call leaves behind: the exception raised or the value returned, and
\* the value of the transformed_data slot afterwards
Raise(kind, slot) == [err |-> kind, ret |-> NoReturn, slot |-> slot]
Return(value) == [err |-> "none", ret |-> value, slot |-> value]

\* the membership test `how not in valid_join_types`
IsValidJoinType(how) == how \in Range(valid_join_types)

\* join with the kinds of the left-empty branch taken from the right-empty one
joinLeftEmptyAsRightEmpty(df1, df2, left_col, right_col, how, slot) ==
    IF ~IsValidJoinType(how) THEN Raise("InvalidJoinKind", slot)
    ELSE IF IsNone(df1) \/ IsNone(df2) THEN Raise("NullInput", slot)
    ELSE IF IsEmpty(df1) /\ IsEmpty(df2) THEN Return(NewDataFrame)
    ELSE IF IsEmpty(df1) THEN
        IF how \in {"inner", "right"} THEN Return(NewDataFrame)
        ELSE Return(Copy(df2))
    ELSE IF IsEmpty(df2) THEN
        IF how \in {"inner", "right"} THEN Return(NewDataFrame)
        ELSE Return(Copy(df1))
    ELSE IF left_col \notin Range(df1.cols) THEN Raise("MissingJoinColumn", slot)
    ELSE IF right_col \notin Range(df2.cols) THEN Raise("MissingJoinColumn", slot)
    ELSE Return(Merge(df1, df2, left_col, right_col, how))

\* join with the kind validated only on the way to the merge
joinKindCheckedLate(df1, df2, left_col, right_col, how, slot) ==
    IF IsNone(df1) \/ IsNone(df2) THEN Raise("NullInput", slot)
    ELSE IF IsEmpty(df1) /\ IsEmpty(df2) THEN Return(NewDataFrame)
    ELSE IF IsEmpty(df1) THEN
        IF how \in {"inner", "left"} THEN Return(NewDataFrame)
        ELSE Return(Copy(df2))
    ELSE IF IsEmpty(df2) THEN
        IF how \in {"inner", "right"} THEN Return(NewDataFrame)
        ELSE Return(Copy(df1))
    ELSE IF ~IsValidJoinType(how) THEN Raise("InvalidJoinKind", slot)
    ELSE IF left_col \notin Range(df1.cols) THEN Raise("MissingJoinColumn", slot)
    ELSE IF right_col \notin Range(df2.cols) THEN Raise("MissingJoinColumn", slot)
    ELSE Return(Merge(df1, df2, left_col, right_col, how))

\* join without its own column checks: a missing column surfaces as the
\* wrapped failure of the merge
joinNoColumnCheck(df1, df2, left_col, right_col, how, slot) ==
    IF ~IsValidJoinType(how) THEN Raise("InvalidJoinKind", slot)
    ELSE IF IsNone(df1) \/ IsNone(df2) THEN Raise("NullInput", slot)
    ELSE IF IsEmpty(df1) /\ IsEmpty(df2) THEN Return(NewDataFrame)
    ELSE IF IsEmpty(df1) THEN
        IF how \in {"inner", "left"} THEN Return(NewDataFrame)
        ELSE Return(Copy(df2))
    ELSE IF IsEmpty(df2) THEN
        IF how \in {"inner", "right"} THEN Return(NewDataFrame)
        ELSE Return(Copy(df1))
    ELSE IF left_col \notin Range(df1.cols) \/ right_col \notin Range(df2.cols)
         THEN Raise("MergeError", slot)
    ELSE Return(Merge(df1, df2, left_col, right_col, how))

\* join(df1, df2, left_col, right_col, how) called with the slot holding `slot`
join(df1, df2, left_col, right_col, how, slot) ==
    IF ~IsValidJoinType(how) THEN Raise("InvalidJoinKind", slot)
    ELSE IF IsNone(df1) \/ IsNone(df2) THEN Raise("NullInput", slot)
    ELSE IF IsEmpty(df1) /\ IsEmpty(df2) THEN Return(NewDataFrame)
    ELSE IF IsEmpty(df1) THEN
        IF how \in {"inner", "left"} THEN Return(NewDataFrame)
        ELSE Return(Copy(df2))
    ELSE IF IsEmpty(df2) THEN
        IF how \in {"inner", "right"} THEN Return(NewDataFrame)
        ELSE Return(Copy(df1))
    ELSE IF left_col \notin Range(df1.cols) THEN Raise("MissingJoinColumn", slot)
    ELSE IF right_col \notin Range(df2.cols) THEN Raise("MissingJoinColumn", slot)
    ELSE Return(Merge(df1, df2, left_col, right_col, how))

---------------------------------------------------------------------------
(* Criteria bundles handed to transform_select *)

\* a str
PyStr(s) == [t |-> "str", s |-> s]
\* an aggregation in the select list: the tuple (func, column)
PyTuple(func, col) == [t |-> "tuple", func |-> func, col |-> col]
PyList(items) == [t |-> "list", items |-> items]
PyInt(v) == [t |-> "int", v |-> v]
\* a float, held in tenths
PyFloat(tenths) == [t |-> "float", tenths |-> tenths]

\* the string "__all__" that stands for the wildcard select list
AllColumns == [t |-> "str", s |-> <<"_", "_", "a", "l", "l", "_", "_">>]

\* nodes of ast_nodes that an OrderByNode carries
ColumnNameNode(name) == [t |-> "ColumnNameNode", name |-> name]
ColumnIndexNode(index) == [t |-> "ColumnIndexNode", index |-> index]
AggregationNode(function, column) ==
    [t |-> "AggregationNode", function |-> function, column |-> column]
OrderByParameter(parameter, way) == [parameter |-> parameter, way |-> way]
OrderByNode(parameters) == [t |-> "OrderByNode", parameters |-> parameters]

\* a WHERE condition as p_cond_3 builds it
Cond(type, left, right) ==
    [t |-> "dict", type |-> type, left |-> left, right |-> right]
\* yacc.py:337-342, conditions : NOT conditions: {'type': p[1], 'operand':
\* p[2]}, the type being the value of the NOT token as the lexer delivered it
CondNot(type, operand) == [t |-> "dict", type |-> type, operand |-> operand]

LimitOrTail(operator, number) ==
    [t |-> "tuple", operator |-> operator, number |-> number]

\* Python truth value: None, the empty list, the empty str and the numbers
\* 0 and 0.0 are false; a tuple of two, a dict with keys and a node are true
Truthy(x) ==
    CASE x.t = "None" -> FALSE
      [] x.t = "list" -> x.items # <<>>
      [] x.t = "str" -> x.s # <<>>
      [] x.t = "int" -> x.v # 0
      [] x.t = "float" -> x.tenths # 0
      [] OTHER -> TRUE

\* isinstance(number, int) on the values a criteria field holds here: an int,
\* a float, a str or None
IsInstanceInt(x) == x.t = "int"

---------------------------------------------------------------------------
(* Characters: a str is a sequence of characters, each a one-character     *)
(* string or, outside printable ASCII, its name U+ and the code in         *)
(* hexadecimal                                                             *)

\* the printable ASCII characters, in code order from 32 to 126 (the grave
\* accent, code 96, goes by its name U+60)
Ascii ==
    <<" ", "!", "\"", "#", "$", "%", "&", "'", "(", ")", "*", "+", ",",
      "-", ".", "/", "0", "1", "2", "3", "4", "5", "6", "7", "8", "9", ":",
      ";", "<", "=", ">", "?", "@", "A", "B", "C", "D", "E", "F", "G", "H",
      "I", "J", "K", "L", "M", "N", "O", "P", "Q", "R", "S", "T", "U", "V",
      "W", "X", "Y", "Z", "[", "\\", "]", "^", "_", "U+60", "a", "b", "c",
      "d", "e", "f", "g", "h", "i", "j", "k", "l", "m", "n", "o", "p", "q",
      "r", "s", "t", "u", "v", "w", "x", "y", "z", "{", "|", "}", "~">>

HexDigits == <<"0", "1", "2", "3", "4", "5", "6", "7", "8", "9", "a", "b", "c", "d", "e", "f">>
UpperHex == <<"0", "1", "2", "3", "4", "5", "6", "7", "8", "9", "A", "B", "C", "D", "E", "F">>

IsHex(c) == c \in Range(HexDigits) \cup Range(UpperHex)
HexVal(c) ==
    With(Lookup(HexDigits, c), LAMBDA k : IF k > 0 THEN k - 1 ELSE Lookup(UpperHex, c) - 1)
IsOctal(c) == c \in {"0", "1", "2", "3", "4", "5", "6", "7"}

\* the number written in base `base` by the digits of text from i to j
NumberAt(text, i, j, base) ==
    LET val[k \in (i - 1)..j] ==
            IF k = i - 1 THEN 0 ELSE base * val[k - 1] + HexVal(text[k])
    IN val[j]

\* the name used for a character that is not printable ASCII: U+ and its
\* code in hexadecimal
RECURSIVE HexOf(_)
HexOf(n) == IF n < 16 THEN UpperHex[n + 1] ELSE HexOf(n \div 16) \o UpperHex[(n % 16) + 1]

\* chr(n)
Chr(n) ==
    CASE n >= 32 /\ n <= 126 -> Ascii[n - 31]
      [] n = 9 -> "\t"
      [] n = 10 -> "\n"
      [] n = 12 -> "\f"
      [] n = 13 -> "\r"
      [] OTHER -> "U+" \o HexOf(n)

\* ord(c)
Ord(c) ==
    CASE c = "\t" -> 9
      [] c = "\n" -> 10
      [] c = "\f" -> 12
      [] c = "\r" -> 13
      [] OTHER ->
            LET val[k \in 2..Len(c)] ==
                    IF k = 2 THEN 0 ELSE 16 * val[k - 1] + HexVal(SubSeq(c, k, k))
            IN With(Lookup(Ascii, c), LAMBDA k : IF k > 0 THEN 31 + k ELSE val[Len(c)])

\* n lies in one of the ranges <<lo, hi>> of the table
InRanges(n, table) == \E k \in 1..Len(table) : table[k][1] <= n /\ n <= table[k][2]

\* the range of the table that n lies in
RangeOf(n, table) == table[CHOOSE k \in 1..Len(table) : table[k][1] <= n /\ n <= table[k][2]]

\* the codes of the white space int() drops from both ends of its argument
IntSpaceRanges ==
    << <<9, 13>>, <<32, 32>>, <<133, 133>>, <<160, 160>>, <<5760, 5760>>, <<8192, 8202>>,
      <<8232, 8233>>, <<8239, 8239>>, <<8287, 8287>>, <<12288, 12288>> >>

\* the codes of the decimal digits of Unicode, each range a run of the digits
\* 0 to 9 (the last but one holds five runs of the mathematical digits)
DecimalRanges ==
    << <<48, 57>>, <<1632, 1641>>, <<1776, 1785>>, <<1984, 1993>>, <<2406, 2415>>,
      <<2534, 2543>>, <<2662, 2671>>, <<2790, 2799>>, <<2918, 2927>>, <<3046, 3055>>,
      <<3174, 3183>>, <<3302, 3311>>, <<3430, 3439>>, <<3558, 3567>>, <<3664, 3673>>,
      <<3792, 3801>>, <<3872, 3881>>, <<4160, 4169>>, <<4240, 4249>>, <<6112, 6121>>,
      <<6160, 6169>>, <<6470, 6479>>, <<6608, 6617>>, <<6784, 6793>>, <<6800, 6809>>,
      <<6992, 7001>>, <<7088, 7097>>, <<7232, 7241>>, <<7248, 7257>>, <<42528, 42537>>,
      <<43216, 43225>>, <<43264, 43273>>, <<43472, 43481>>, <<43504, 43513>>,
      <<43600, 43609>>, <<44016, 44025>>, <<65296, 65305>>, <<66720, 66729>>,
      <<68912, 68921>>, <<69734, 69743>>, <<69872, 69881>>, <<69942, 69951>>,
      <<70096, 70105>>, <<70384, 70393>>, <<70736, 70745>>, <<70864, 70873>>,
      <<71248, 71257>>, <<71360, 71369>>, <<71472, 71481>>, <<71904, 71913>>,
      <<72016, 72025>>, <<72784, 72793>>, <<73040, 73049>>, <<73120, 73129>>,
      <<92768, 92777>>, <<92864, 92873>>, <<93008, 93017>>, <<120782, 120831>>,
      <<123200, 123209>>, <<123632, 123641>>, <<125264, 125273>>, <<130032, 130041>> >>

\* the codes str.isdigit() takes for digits: the decimal digits and the
\* superscript, subscript and circled digits
DigitRanges ==
    << <<48, 57>>, <<178, 179>>, <<185, 185>>, <<1632, 1641>>, <<1776, 1785>>,
      <<1984, 1993>>, <<2406, 2415>>, <<2534, 2543>>, <<2662, 2671>>, <<2790, 2799>>,
      <<2918, 2927>>, <<3046, 3055>>, <<3174, 3183>>, <<3302, 3311>>, <<3430, 3439>>,
      <<3558, 3567>>, <<3664, 3673>>, <<3792, 3801>>, <<3872, 3881>>, <<4160, 4169>>,
      <<4240, 4249>>, <<4969, 4977>>, <<6112, 6121>>, <<6160, 6169>>, <<6470, 6479>>,
      <<6608, 6618>>, <<6784, 6793>>, <<6800, 6809>>, <<6992, 7001>>, <<7088, 7097>>,
      <<7232, 7241>>, <<7248, 7257>>, <<8304, 8304>>, <<8308, 8313>>, <<8320, 8329>>,
      <<9312, 9320>>, <<9332, 9340>>, <<9352, 9360>>, <<9450, 9450>>, <<9461, 9469>>,
      <<9471, 9471>>, <<10102, 10110>>, <<10112, 10120>>, <<10122, 10130>>,
      <<42528, 42537>>, <<43216, 43225>>, <<43264, 43273>>, <<43472, 43481>>,
      <<43504, 43513>>, <<43600, 43609>>, <<44016, 44025>>, <<65296, 65305>>,
      <<66720, 66729>>, <<68160, 68163>>, <<68912, 68921>>, <<69216, 69224>>,
      <<69714, 69722>>, <<69734, 69743>>, <<69872, 69881>>, <<69942, 69951>>,
      <<70096, 70105>>, <<70384, 70393>>, <<70736, 70745>>, <<70864, 70873>>,
      <<71248, 71257>>, <<71360, 71369>>, <<71472, 71481>>, <<71904, 71913>>,
      <<72016, 72025>>, <<72784, 72793>>, <<73040, 73049>>, <<73120, 73129>>,
      <<92768, 92777>>, <<92864, 92873>>, <<93008, 93017>>, <<120782, 120831>>,
      <<123200, 123209>>, <<123632, 123641>>, <<125264, 125273>>, <<127232, 127242>>,
      <<130032, 130041>> >>

\* the codes str.isprintable() refuses, which repr() writes as escapes:
\* controls, separators other than the space, format characters, surrogates,
\* private-use and unassigned codes (Unicode 14)
NonPrintableRanges ==
    << <<0, 31>>, <<127, 160>>, <<173, 173>>, <<888, 889>>, <<896, 899>>, <<907, 907>>,
      <<909, 909>>, <<930, 930>>, <<1328, 1328>>, <<1367, 1368>>, <<1419, 1420>>,
      <<1424, 1424>>, <<1480, 1487>>, <<1515, 1518>>, <<1525, 1541>>, <<1564, 1564>>,
      <<1757, 1757>>, <<1806, 1807>>, <<1867, 1868>>, <<1970, 1983>>, <<2043, 2044>>,
      <<2094, 2095>>, <<2111, 2111>>, <<2140, 2141>>, <<2143, 2143>>, <<2155, 2159>>,
      <<2191, 2199>>, <<2274, 2274>>, <<2436, 2436>>, <<2445, 2446>>, <<2449, 2450>>,
      <<2473, 2473>>, <<2481, 2481>>, <<2483, 2485>>, <<2490, 2491>>, <<2501, 2502>>,
      <<2505, 2506>>, <<2511, 2518>>, <<2520, 2523>>, <<2526, 2526>>, <<2532, 2533>>,
      <<2559, 2560>>, <<2564, 2564>>, <<2571, 2574>>, <<2577, 2578>>, <<2601, 2601>>,
      <<2609, 2609>>, <<2612, 2612>>, <<2615, 2615>>, <<2618, 2619>>, <<2621, 2621>>,
      <<2627, 2630>>, <<2633, 2634>>, <<2638, 2640>>, <<2642, 2648>>, <<2653, 2653>>,
      <<2655, 2661>>, <<2679, 2688>>, <<2692, 2692>>, <<2702, 2702>>, <<2706, 2706>>,
      <<2729, 2729>>, <<2737, 2737>>, <<2740, 2740>>, <<2746, 2747>>, <<2758, 2758>>,
      <<2762, 2762>>, <<2766, 2767>>, <<2769, 2783>>, <<2788, 2789>>, <<2802, 2808>>,
      <<2816, 2816>>, <<2820, 2820>>, <<2829, 2830>>, <<2833, 2834>>, <<2857, 2857>>,
      <<2865, 2865>>, <<2868, 2868>>, <<2874, 2875>>, <<2885, 2886>>, <<2889, 2890>>,
      <<2894, 2900>>, <<2904, 2907>>, <<2910, 2910>>, <<2916, 2917>>, <<2936, 2945>>,
      <<2948, 2948>>, <<2955, 2957>>, <<2961, 2961>>, <<2966, 2968>>, <<2971, 2971>>,
      <<2973, 2973>>, <<2976, 2978>>, <<2981, 2983>>, <<2987, 2989>>, <<3002, 3005>>,
      <<3011, 3013>>, <<3017, 3017>>, <<3022, 3023>>, <<3025, 3030>>, <<3032, 3045>>,
      <<3067, 3071>>, <<3085, 3085>>, <<3089, 3089>>, <<3113, 3113>>, <<3130, 3131>>,
      <<3141, 3141>>, <<3145, 3145>>, <<3150, 3156>>, <<3159, 3159>>, <<3163, 3164>>,
      <<3166, 3167>>, <<3172, 3173>>, <<3184, 3190>>, <<3213, 3213>>, <<3217, 3217>>,
      <<3241, 3241>>, <<3252, 3252>>, <<3258, 3259>>, <<3269, 3269>>, <<3273, 3273>>,
      <<3278, 3284>>, <<3287, 3292>>, <<3295, 3295>>, <<3300, 3301>>, <<3312, 3312>>,
      <<3315, 3327>>, <<3341, 3341>>, <<3345, 3345>>, <<3397, 3397>>, <<3401, 3401>>,
      <<3408, 3411>>, <<3428, 3429>>, <<3456, 3456>>, <<3460, 3460>>, <<3479, 3481>>,
      <<3506, 3506>>, <<3516, 3516>>, <<3518, 3519>>, <<3527, 3529>>, <<3531, 3534>>,
      <<3541, 3541>>, <<3543, 3543>>, <<3552, 3557>>, <<3568, 3569>>, <<3573, 3584>>,
      <<3643, 3646>>, <<3676, 3712>>, <<3715, 3715>>, <<3717, 3717>>, <<3723, 3723>>,
      <<3748, 3748>>, <<3750, 3750>>, <<3774, 3775>>, <<3781, 3781>>, <<3783, 3783>>,
      <<3790, 3791>>, <<3802, 3803>>, <<3808, 3839>>, <<3912, 3912>>, <<3949, 3952>>,
      <<3992, 3992>>, <<4029, 4029>>, <<4045, 4045>>, <<4059, 4095>>, <<4294, 4294>>,
      <<4296, 4300>>, <<4302, 4303>>, <<4681, 4681>>, <<4686, 4687>>, <<4695, 4695>>,
      <<4697, 4697>>, <<4702, 4703>>, <<4745, 4745>>, <<4750, 4751>>, <<4785, 4785>>,
      <<4790, 4791>>, <<4799, 4799>>, <<4801, 4801>>, <<4806, 4807>>, <<4823, 4823>>,
      <<4881, 4881>>, <<4886, 4887>>, <<4955, 4956>>, <<4989, 4991>>, <<5018, 5023>>,
      <<5110, 5111>>, <<5118, 5119>>, <<5760, 5760>>, <<5789, 5791>>, <<5881, 5887>>,
      <<5910, 5918>>, <<5943, 5951>>, <<5972, 5983>>, <<5997, 5997>>, <<6001, 6001>>,
      <<6004, 6015>>, <<6110, 6111>>, <<6122, 6127>>, <<6138, 6143>>, <<6158, 6158>>,
      <<6170, 6175>>, <<6265, 6271>>, <<6315, 6319>>, <<6390, 6399>>, <<6431, 6431>>,
      <<6444, 6447>>, <<6460, 6463>>, <<6465, 6467>>, <<6510, 6511>>, <<6517, 6527>>,
      <<6572, 6575>>, <<6602, 6607>>, <<6619, 6621>>, <<6684, 6685>>, <<6751, 6751>>,
      <<6781, 6782>>, <<6794, 6799>>, <<6810, 6815>>, <<6830, 6831>>, <<6863, 6911>>,
      <<6989, 6991>>, <<7039, 7039>>, <<7156, 7163>>, <<7224, 7226>>, <<7242, 7244>>,
      <<7305, 7311>>, <<7355, 7356>>, <<7368, 7375>>, <<7419, 7423>>, <<7958, 7959>>,
      <<7966, 7967>>, <<8006, 8007>>, <<8014, 8015>>, <<8024, 8024>>, <<8026, 8026>>,
      <<8028, 8028>>, <<8030, 8030>>, <<8062, 8063>>, <<8117, 8117>>, <<8133, 8133>>,
      <<8148, 8149>>, <<8156, 8156>>, <<8176, 8177>>, <<8181, 8181>>, <<8191, 8207>>,
      <<8232, 8239>>, <<8287, 8303>>, <<8306, 8307>>, <<8335, 8335>>, <<8349, 8351>>,
      <<8385, 8399>>, <<8433, 8447>>, <<8588, 8591>>, <<9255, 9279>>, <<9291, 9311>>,
      <<11124, 11125>>, <<11158, 11158>>, <<11508, 11512>>, <<11558, 11558>>,
      <<11560, 11564>>, <<11566, 11567>>, <<11624, 11630>>, <<11633, 11646>>,
      <<11671, 11679>>, <<11687, 11687>>, <<11695, 11695>>, <<11703, 11703>>,
      <<11711, 11711>>, <<11719, 11719>>, <<11727, 11727>>, <<11735, 11735>>,
      <<11743, 11743>>, <<11870, 11903>>, <<11930, 11930>>, <<12020, 12031>>,
      <<12246, 12271>>, <<12284, 12288>>, <<12352, 12352>>, <<12439, 12440>>,
      <<12544, 12548>>, <<12592, 12592>>, <<12687, 12687>>, <<12772, 12783>>,
      <<12831, 12831>>, <<42125, 42127>>, <<42183, 42191>>, <<42540, 42559>>,
      <<42744, 42751>>, <<42955, 42959>>, <<42962, 42962>>, <<42964, 42964>>,
      <<42970, 42993>>, <<43053, 43055>>, <<43066, 43071>>, <<43128, 43135>>,
      <<43206, 43213>>, <<43226, 43231>>, <<43348, 43358>>, <<43389, 43391>>,
      <<43470, 43470>>, <<43482, 43485>>, <<43519, 43519>>, <<43575, 43583>>,
      <<43598, 43599>>, <<43610, 43611>>, <<43715, 43738>>, <<43767, 43776>>,
      <<43783, 43784>>, <<43791, 43792>>, <<43799, 43807>>, <<43815, 43815>>,
      <<43823, 43823>>, <<43884, 43887>>, <<44014, 44015>>, <<44026, 44031>>,
      <<55204, 55215>>, <<55239, 55242>>, <<55292, 63743>>, <<64110, 64111>>,
      <<64218, 64255>>, <<64263, 64274>>, <<64280, 64284>>, <<64311, 64311>>,
      <<64317, 64317>>, <<64319, 64319>>, <<64322, 64322>>, <<64325, 64325>>,
      <<64451, 64466>>, <<64912, 64913>>, <<64968, 64974>>, <<64976, 65007>>,
      <<65050, 65055>>, <<65107, 65107>>, <<65127, 65127>>, <<65132, 65135>>,
      <<65141, 65141>>, <<65277, 65280>>, <<65471, 65473>>, <<65480, 65481>>,
      <<65488, 65489>>, <<65496, 65497>>, <<65501, 65503>>, <<65511, 65511>>,
      <<65519, 65531>>, <<65534, 65535>>, <<65548, 65548>>, <<65575, 65575>>,
      <<65595, 65595>>, <<65598, 65598>>, <<65614, 65615>>, <<65630, 65663>>,
      <<65787, 65791>>, <<65795, 65798>>, <<65844, 65846>>, <<65935, 65935>>,
      <<65949, 65951>>, <<65953, 65999>>, <<66046, 66175>>, <<66205, 66207>>,
      <<66257, 66271>>, <<66300, 66303>>, <<66340, 66348>>, <<66379, 66383>>,
      <<66427, 66431>>, <<66462, 66462>>, <<66500, 66503>>, <<66518, 66559>>,
      <<66718, 66719>>, <<66730, 66735>>, <<66772, 66775>>, <<66812, 66815>>,
      <<66856, 66863>>, <<66916, 66926>>, <<66939, 66939>>, <<66955, 66955>>,
      <<66963, 66963>>, <<66966, 66966>>, <<66978, 66978>>, <<66994, 66994>>,
      <<67002, 67002>>, <<67005, 67071>>, <<67383, 67391>>, <<67414, 67423>>,
      <<67432, 67455>>, <<67462, 67462>>, <<67505, 67505>>, <<67515, 67583>>,
      <<67590, 67591>>, <<67593, 67593>>, <<67638, 67638>>, <<67641, 67643>>,
      <<67645, 67646>>, <<67670, 67670>>, <<67743, 67750>>, <<67760, 67807>>,
      <<67827, 67827>>, <<67830, 67834>>, <<67868, 67870>>, <<67898, 67902>>,
      <<67904, 67967>>, <<68024, 68027>>, <<68048, 68049>>, <<68100, 68100>>,
      <<68103, 68107>>, <<68116, 68116>>, <<68120, 68120>>, <<68150, 68151>>,
      <<68155, 68158>>, <<68169, 68175>>, <<68185, 68191>>, <<68256, 68287>>,
      <<68327, 68330>>, <<68343, 68351>>, <<68406, 68408>>, <<68438, 68439>>,
      <<68467, 68471>>, <<68498, 68504>>, <<68509, 68520>>, <<68528, 68607>>,
      <<68681, 68735>>, <<68787, 68799>>, <<68851, 68857>>, <<68904, 68911>>,
      <<68922, 69215>>, <<69247, 69247>>, <<69290, 69290>>, <<69294, 69295>>,
      <<69298, 69375>>, <<69416, 69423>>, <<69466, 69487>>, <<69514, 69551>>,
      <<69580, 69599>>, <<69623, 69631>>, <<69710, 69713>>, <<69750, 69758>>,
      <<69821, 69821>>, <<69827, 69839>>, <<69865, 69871>>, <<69882, 69887>>,
      <<69941, 69941>>, <<69960, 69967>>, <<70007, 70015>>, <<70112, 70112>>,
      <<70133, 70143>>, <<70162, 70162>>, <<70207, 70271>>, <<70279, 70279>>,
      <<70281, 70281>>, <<70286, 70286>>, <<70302, 70302>>, <<70314, 70319>>,
      <<70379, 70383>>, <<70394, 70399>>, <<70404, 70404>>, <<70413, 70414>>,
      <<70417, 70418>>, <<70441, 70441>>, <<70449, 70449>>, <<70452, 70452>>,
      <<70458, 70458>>, <<70469, 70470>>, <<70473, 70474>>, <<70478, 70479>>,
      <<70481, 70486>>, <<70488, 70492>>, <<70500, 70501>>, <<70509, 70511>>,
      <<70517, 70655>>, <<70748, 70748>>, <<70754, 70783>>, <<70856, 70863>>,
      <<70874, 71039>>, <<71094, 71095>>, <<71134, 71167>>, <<71237, 71247>>,
      <<71258, 71263>>, <<71277, 71295>>, <<71354, 71359>>, <<71370, 71423>>,
      <<71451, 71452>>, <<71468, 71471>>, <<71495, 71679>>, <<71740, 71839>>,
      <<71923, 71934>>, <<71943, 71944>>, <<71946, 71947>>, <<71956, 71956>>,
      <<71959, 71959>>, <<71990, 71990>>, <<71993, 71994>>, <<72007, 72015>>,
      <<72026, 72095>>, <<72104, 72105>>, <<72152, 72153>>, <<72165, 72191>>,
      <<72264, 72271>>, <<72355, 72367>>, <<72441, 72703>>, <<72713, 72713>>,
      <<72759, 72759>>, <<72774, 72783>>, <<72813, 72815>>, <<72848, 72849>>,
      <<72872, 72872>>, <<72887, 72959>>, <<72967, 72967>>, <<72970, 72970>>,
      <<73015, 73017>>, <<73019, 73019>>, <<73022, 73022>>, <<73032, 73039>>,
      <<73050, 73055>>, <<73062, 73062>>, <<73065, 73065>>, <<73103, 73103>>,
      <<73106, 73106>>, <<73113, 73119>>, <<73130, 73439>>, <<73465, 73647>>,
      <<73649, 73663>>, <<73714, 73726>>, <<74650, 74751>>, <<74863, 74863>>,
      <<74869, 74879>>, <<75076, 77711>>, <<77811, 77823>>, <<78895, 82943>>,
      <<83527, 92159>>, <<92729, 92735>>, <<92767, 92767>>, <<92778, 92781>>,
      <<92863, 92863>>, <<92874, 92879>>, <<92910, 92911>>, <<92918, 92927>>,
      <<92998, 93007>>, <<93018, 93018>>, <<93026, 93026>>, <<93048, 93052>>,
      <<93072, 93759>>, <<93851, 93951>>, <<94027, 94030>>, <<94088, 94094>>,
      <<94112, 94175>>, <<94181, 94191>>, <<94194, 94207>>, <<100344, 100351>>,
      <<101590, 101631>>, <<101641, 110575>>, <<110580, 110580>>, <<110588, 110588>>,
      <<110591, 110591>>, <<110883, 110927>>, <<110931, 110947>>, <<110952, 110959>>,
      <<111356, 113663>>, <<113771, 113775>>, <<113789, 113791>>, <<113801, 113807>>,
      <<113818, 113819>>, <<113824, 118527>>, <<118574, 118575>>, <<118599, 118607>>,
      <<118724, 118783>>, <<119030, 119039>>, <<119079, 119080>>, <<119155, 119162>>,
      <<119275, 119295>>, <<119366, 119519>>, <<119540, 119551>>, <<119639, 119647>>,
      <<119673, 119807>>, <<119893, 119893>>, <<119965, 119965>>, <<119968, 119969>>,
      <<119971, 119972>>, <<119975, 119976>>, <<119981, 119981>>, <<119994, 119994>>,
      <<119996, 119996>>, <<120004, 120004>>, <<120070, 120070>>, <<120075, 120076>>,
      <<120085, 120085>>, <<120093, 120093>>, <<120122, 120122>>, <<120127, 120127>>,
      <<120133, 120133>>, <<120135, 120137>>, <<120145, 120145>>, <<120486, 120487>>,
      <<120780, 120781>>, <<121484, 121498>>, <<121504, 121504>>, <<121520, 122623>>,
      <<122655, 122879>>, <<122887, 122887>>, <<122905, 122906>>, <<122914, 122914>>,
      <<122917, 122917>>, <<122923, 123135>>, <<123181, 123183>>, <<123198, 123199>>,
      <<123210, 123213>>, <<123216, 123535>>, <<123567, 123583>>, <<123642, 123646>>,
      <<123648, 124895>>, <<124903, 124903>>, <<124908, 124908>>, <<124911, 124911>>,
      <<124927, 124927>>, <<125125, 125126>>, <<125143, 125183>>, <<125260, 125263>>,
      <<125274, 125277>>, <<125280, 126064>>, <<126133, 126208>>, <<126270, 126463>>,
      <<126468, 126468>>, <<126496, 126496>>, <<126499, 126499>>, <<126501, 126502>>,
      <<126504, 126504>>, <<126515, 126515>>, <<126520, 126520>>, <<126522, 126522>>,
      <<126524, 126529>>, <<126531, 126534>>, <<126536, 126536>>, <<126538, 126538>>,
      <<126540, 126540>>, <<126544, 126544>>, <<126547, 126547>>, <<126549, 126550>>,
      <<126552, 126552>>, <<126554, 126554>>, <<126556, 126556>>, <<126558, 126558>>,
      <<126560, 126560>>, <<126563, 126563>>, <<126565, 126566>>, <<126571, 126571>>,
      <<126579, 126579>>, <<126584, 126584>>, <<126589, 126589>>, <<126591, 126591>>,
      <<126602, 126602>>, <<126620, 126624>>, <<126628, 126628>>, <<126634, 126634>>,
      <<126652, 126703>>, <<126706, 126975>>, <<127020, 127023>>, <<127124, 127135>>,
      <<127151, 127152>>, <<127168, 127168>>, <<127184, 127184>>, <<127222, 127231>>,
      <<127406, 127461>>, <<127491, 127503>>, <<127548, 127551>>, <<127561, 127567>>,
      <<127570, 127583>>, <<127590, 127743>>, <<128728, 128732>>, <<128749, 128751>>,
      <<128765, 128767>>, <<128884, 128895>>, <<128985, 128991>>, <<129004, 129007>>,
      <<129009, 129023>>, <<129036, 129039>>, <<129096, 129103>>, <<129114, 129119>>,
      <<129160, 129167>>, <<129198, 129199>>, <<129202, 129279>>, <<129620, 129631>>,
      <<129646, 129647>>, <<129653, 129655>>, <<129661, 129663>>, <<129671, 129679>>,
      <<129709, 129711>>, <<129723, 129727>>, <<129734, 129743>>, <<129754, 129759>>,
      <<129768, 129775>>, <<129783, 129791>>, <<129939, 129939>>, <<129995, 130031>>,
      <<130042, 131071>>, <<173792, 173823>>, <<177977, 177983>>, <<178206, 178207>>,
      <<183970, 183983>>, <<191457, 194559>>, <<195102, 196607>>, <<201547, 917759>>,
      <<918000, 1114111>> >>


---------------------------------------------------------------------------
(* Column references, core.py:60-61 and 70-75 *)

Digits == <<"0", "1", "2", "3", "4", "5", "6", "7", "8", "9">>

\* the ASCII digits
IsDigit(c) == c \in Range(Digits)

\* a decimal digit of any script, and its value
IsDecimal(c) == IsDigit(c) \/ InRanges(Ord(c), DecimalRanges)
DigitVal(c) ==
    IF IsDigit(c) THEN Lookup(Digits, c) - 1
    ELSE With(Ord(c), LAMBDA n : (n - RangeOf(n, DecimalRanges)[1]) % 10)

\* the white space int() strips from both ends of its argument
IsIntSpace(c) == InRanges(Ord(c), IntSpaceRanges)

\* the number of white space characters the text starts with
SpaceRun(text) ==
    CHOOSE n \in 0..Len(text) :
        \A j \in 1..(IF n < Len(text) THEN n + 1 ELSE n) :
            IsIntSpace(text[j]) = (j <= n)

\* the text without the white space int() drops from both ends
StripIntSpace(text) ==
    LET turned == [i \in 1..Len(text) |-> text[Len(text) + 1 - i]]
        run == [back \in BOOLEAN |-> SpaceRun(IF back THEN turned ELSE text)]
    IN IF run[FALSE] = Len(text) THEN <<>>
       ELSE SubSeq(text, run[FALSE] + 1, Len(text) - run[TRUE])

\* the characters of a numeral as int() reads them: the value of a decimal
\* digit of any script, 10 for an underscore, 11 for any other character
NumeralDigits(body) ==
    [i \in 1..Len(body) |->
        IF body[i] = "_" THEN 10
        ELSE IF IsDecimal(body[i]) THEN DigitVal(body[i])
        ELSE 11]

\* the number the figures of d write, underscores skipped; zeros in front
\* add nothing
Number(d) ==
    LET val[i \in 0..Len(d)] ==
            IF \A j \in 1..i : d[j] \in {0, 10} THEN 0
            ELSE IF d[i] = 10 THEN val[i - 1]
            ELSE 10 * val[i - 1] + d[i]
    IN val[Len(d)]

\* the number written by the digits d, single underscores allowed between
\* two digits.  A numeral of more than 4300 digits, underscores not counted,
\* is refused (sys.int_max_str_digits, Python 3.11 and later)
NumeralValue(d) ==
    LET well == \A i \in 1..Len(d) :
                    \/ d[i] < 10
                    \/ /\ d[i] = 10 /\ 1 < i /\ i < Len(d)
                       /\ d[i - 1] < 10 /\ d[i + 1] < 10
        figures == Cardinality({i \in 1..Len(d) : d[i] < 10})
    IN IF d = <<>> \/ ~well \/ figures > 4300 THEN [ok |-> FALSE, v |-> 0]
       ELSE [ok |-> TRUE, v |-> Number(d)]

\* the numeral after its sign, if it has one
Unsigned(core) == IF core # <<>> /\ Head(core) \in {"+", "-"} THEN Tail(core) ELSE core

\* the number written by a sign "+" or "-", if any, and a numeral
SignedValue(core) ==
    With(NumeralValue(NumeralDigits(Unsigned(core))), LAMBDA n :
         IF n.ok /\ Head(core) = "-" THEN [ok |-> TRUE, v |-> 0 - n.v] ELSE n)

\* int(text): white space around is dropped, then an optional sign "+" or "-"
\* and decimal digits of any script, single underscores allowed between two
\* digits; ValueError (ok = FALSE) for any other text and for more than 4300
\* digits
ParseInt(text) == SignedValue(StripIntSpace(text))

\* is_column_number(x): x.startswith("[") and x.endswith("]")
is_column_number(x) == x # <<>> /\ Head(x) = "[" /\ x[Len(x)] = "]"

\* x[1:-1]
Inner(x) == SubSeq(x, 2, Len(x) - 1)

\* outcome of a helper: a frame, or the kind of the exception it raised
Ok(df) == [err |-> "none", df |-> df]
Fail(kind) == [err |-> kind, df |-> NoneVal]

\* a resolved column name, or the kind of the exception raised
Name(n) == [err |-> "none", name |-> n]
NoName(kind) == [err |-> kind, name |-> <<>>]

\* core.py:70-77 and 87-93: a reference that looks like "[n]" becomes the
\* name of column n of df, any other reference is the name itself; what
\* int() does not convert leaves as its ValueError
ResolveRef(df, ref) ==
    IF is_column_number(ref) THEN
        With(ParseInt(Inner(ref)), LAMBDA idx :
             IF ~idx.ok THEN NoName("ValueError")
             ELSE IF idx.v < 0 \/ idx.v >= Len(df.cols)
                  THEN NoName("ColumnIndexOutOfRange")
             ELSE Name(df.cols[idx.v + 1]))
    ELSE Name(ref)

\* value of column `name` in `row` of df
Cell(df, row, name) == row[IndexOf(df.cols, name)]

HasColumn(df, name) == name \in Range(df.cols)

---------------------------------------------------------------------------
(* The helpers transform_select calls (app.etl.helpers), and the pandas    *)
(* operations head, tail and drop_duplicates                               *)

\* s without its repeated elements, first occurrences kept in order
Dedup(s) ==
    LET acc[i \in 0..Len(s)] ==
            IF i = 0 THEN <<>>
            ELSE IF s[i] \in Range(acc[i - 1]) THEN acc[i - 1]
            ELSE Append(acc[i - 1], s[i])
    IN acc[Len(s)]

\* get_unique: de-duplicate, keeping first occurrences in order
get_unique(names) == Dedup(names)

\* DataFrame.drop_duplicates(): rows equal in every column, first one kept
drop_duplicates(df) == DataFrame(df.cols, Dedup(df.rows))

\* DataFrame.head(n) and DataFrame.tail(n) for n > 0
head(df, n) == DataFrame(df.cols, SubSeq(df.rows, 1, Min(n, Len(df.rows))))
tail(df, n) ==
    DataFrame(df.cols,
              SubSeq(df.rows, Max(1, Len(df.rows) - n + 1), Len(df.rows)))

\* pd.DataFrame(columns=data.columns): the same columns and no rows
EmptyLike(df) == DataFrame(df.cols, <<>>)

\* the columns a condition tree reads
RECURSIVE CondColumns(_)
CondColumns(c) ==
    CASE c.type \in {"and", "or"} -> CondColumns(c.left) \cup CondColumns(c.right)
      [] c.type = "not" -> CondColumns(c.operand)
      [] OTHER -> {c.left.s}

Compare(op, a, b) ==
    CASE op = "=" -> a = b
      [] op = "!=" -> a # b
      [] op = ">=" -> a >= b
      [] op = ">" -> a > b
      [] op = "<=" -> a <= b
      [] OTHER -> a < b

\* whether `row` of df satisfies the condition tree
RECURSIVE EvalCond(_, _, _)
EvalCond(df, row, c) ==
    CASE c.type = "and" -> EvalCond(df, row, c.left) /\ EvalCond(df, row, c.right)
      [] c.type = "or" -> EvalCond(df, row, c.left) \/ EvalCond(df, row, c.right)
      [] c.type = "not" -> ~EvalCond(df, row, c.operand)
      [] OTHER -> Compare(c.type, Cell(df, row, c.left.s), c.right.v)

\* apply_filtering: keep the rows that satisfy the condition tree
apply_filtering(df, filter) ==
    IF \E n \in CondColumns(filter) : ~HasColumn(df, n)
    THEN Fail("ColumnNotFound")
    ELSE Ok(DataFrame(df.cols,
                      SelectSeq(df.rows, LAMBDA r : EvalCond(df, r, filter))))

\* rows stably sorted by one column, ascending or descending
SortRowsBy(df, rows, name, way) ==
    SortBy(rows, LAMBDA r : IF way = "DESC" THEN 0 - Cell(df, r, name)
                            ELSE Cell(df, r, name))

\* rows sorted by the names in priority order: stable sorts, last key first
SortRows(df, names, ways) ==
    LET acc[i \in 0..Len(names)] ==
            IF i = 0 THEN df.rows
            ELSE SortRowsBy(df, acc[i - 1], names[Len(names) - i + 1],
                            ways[Len(names) - i + 1])
    IN acc[Len(names)]

\* name of the output column of an aggregation
AggName(func, col) == func \o <<"(">> \o col \o <<")">>

\* the column of df an ORDER BY parameter sorts by
OrderParamName(df, param) ==
    CASE param.t = "ColumnNameNode" ->
            IF HasColumn(df, param.name) THEN Name(param.name)
            ELSE NoName("ColumnNotFound")
      [] param.t = "ColumnIndexNode" ->
            IF param.index < 0 \/ param.index >= Len(df.cols)
            THEN NoName("ColumnIndexOutOfRange")
            ELSE Name(df.cols[param.index + 1])
      [] OTHER ->
            IF HasColumn(df, AggName(param.function, param.column.name))
            THEN Name(AggName(param.function, param.column.name))
            ELSE NoName("ColumnNotFound")

\* the ordering rule: stable, multi-key, first parameter is the primary key
OrderFrame(df, order_by_node) ==
    LET ps == order_by_node.parameters
        names == [i \in 1..Len(ps) |-> OrderParamName(df, ps[i].parameter)]
        ways == [i \in 1..Len(ps) |-> ps[i].way]
    IN IF \E i \in 1..Len(ps) : names[i].err # "none"
       THEN Fail(names[CHOOSE i \in 1..Len(ps) :
                         /\ names[i].err # "none"
                         /\ \A j \in 1..(i - 1) : names[j].err = "none"].err)
       ELSE Ok(DataFrame(df.cols,
                         SortRows(df, [i \in 1..Len(ps) |-> names[i].name], ways)))

\* apply_order_by_without_groupby: sort the raw rows
apply_order_by_without_groupby(df, order_by_node) == OrderFrame(df, order_by_node)

\* the first failure among resolved names, "none" when all resolved
FirstErr(rs) ==
    IF \A i \in 1..Len(rs) : rs[i].err = "none" THEN "none"
    ELSE rs[CHOOSE i \in 1..Len(rs) :
              /\ rs[i].err # "none"
              /\ \A j \in 1..(i - 1) : rs[j].err = "none"].err

\* group_by_columns_names: each group key (index or name) as a column name
group_by_columns_names(df, group) ==
    [i \in 1..Len(group.items) |-> ResolveRef(df, group.items[i].s)]

\* convert_select_column_indices_to_name: each selected column with its
\* reference resolved; an aggregation keeps its function
convert_select_column_indices_to_name(df, columns) ==
    [i \in 1..Len(columns.items) |->
        LET c == columns.items[i]
        IN IF c.t = "tuple"
           THEN [agg |-> TRUE, func |-> c.func,
                 r |-> IF c.col = <<"*">> THEN Name(c.col) ELSE ResolveRef(df, c.col)]
           ELSE [agg |-> FALSE, func |-> <<>>, r |-> ResolveRef(df, c.s)]]

\* check_if_column_names_is_in_group_by: every plain selected column is a key
check_if_column_names_is_in_group_by(select_cols, groupby_cols) ==
    \A i \in 1..Len(select_cols) :
        select_cols[i].agg \/ select_cols[i].r.name \in Range(groupby_cols)

FnSum == <<"s", "u", "m">>
FnSize == <<"s", "i", "z", "e">>
FnMax == <<"m", "a", "x">>
FnMin == <<"m", "i", "n">>

RECURSIVE SumSeq(_)
SumSeq(s) == IF s = <<>> THEN 0 ELSE Head(s) + SumSeq(Tail(s))

\* one aggregation function over the values of a column
Aggregate(func, values) ==
    CASE func = FnSum -> SumSeq(values)
      [] func = FnSize -> Len(values)
      [] func = FnMax ->
            IF values = <<>> THEN NaN
            ELSE CHOOSE m \in Range(values) : \A x \in Range(values) : x <= m
      [] OTHER ->
            IF values = <<>> THEN NaN
            ELSE CHOOSE m \in Range(values) : \A x \in Range(values) : m <= x

\* the values an aggregation over `col` reads from `rows`: the wildcard
\* counts rows
AggValues(df, rows, col) ==
    [i \in 1..Len(rows) |-> IF col = <<"*">> THEN 1 ELSE Cell(df, rows[i], col)]

\* columns a list of resolved select columns reads that df does not have
MissingOf(df, select_cols) ==
    {i \in 1..Len(select_cols) :
        /\ select_cols[i].r.name # <<"*">>
        /\ ~HasColumn(df, select_cols[i].r.name)}

OutCols(select_cols) ==
    [i \in 1..Len(select_cols) |->
        IF select_cols[i].agg
        THEN AggName(select_cols[i].func, select_cols[i].r.name)
        ELSE select_cols[i].r.name]

\* one output row: each plain column from the first row, each aggregation
\* over all the rows
OutRow(df, rows, select_cols) ==
    [i \in 1..Len(select_cols) |->
        IF select_cols[i].agg
        THEN Aggregate(select_cols[i].func,
                       AggValues(df, rows, select_cols[i].r.name))
        ELSE Cell(df, rows[1], select_cols[i].r.name)]

\* grouping that lists the groups from the last key seen to the first
apply_groupbyLastSeenFirst(df, select_cols, groupby_cols) ==
    IF MissingOf(df, select_cols) # {} \/ \E k \in Range(groupby_cols) : ~HasColumn(df, k)
    THEN Fail("ColumnNotFound")
    ELSE
        LET keyOf(r) == [i \in 1..Len(groupby_cols) |-> Cell(df, r, groupby_cols[i])]
            seen == Dedup([i \in 1..Len(df.rows) |-> keyOf(df.rows[i])])
            keys == [i \in 1..Len(seen) |-> seen[Len(seen) + 1 - i]]
            groupOf(k) == SelectSeq(df.rows, LAMBDA r : keyOf(r) = k)
        IN Ok(DataFrame(OutCols(select_cols),
                        [g \in 1..Len(keys) |->
                            OutRow(df, groupOf(keys[g]), select_cols)]))

\* apply_groupby: partition the rows by the key tuple, groups in the order
\* their key first appears, one output row per group
apply_groupby(df, select_cols, groupby_cols) ==
    IF MissingOf(df, select_cols) # {} \/ \E k \in Range(groupby_cols) : ~HasColumn(df, k)
    THEN Fail("ColumnNotFound")
    ELSE
        LET keyOf(r) == [i \in 1..Len(groupby_cols) |-> Cell(df, r, groupby_cols[i])]
            keys == Dedup([i \in 1..Len(df.rows) |-> keyOf(df.rows[i])])
            groupOf(k) == SelectSeq(df.rows, LAMBDA r : keyOf(r) = k)
        IN Ok(DataFrame(OutCols(select_cols),
                        [g \in 1..Len(keys) |->
                            OutRow(df, groupOf(keys[g]), select_cols)]))

\* apply_groupby_with_order: the grouped result, then the ordering rule
apply_groupby_with_order(df, select_cols, groupby_cols, order_by_node) ==
    LET grouped == apply_groupby(df, select_cols, groupby_cols)
    IN IF grouped.err # "none" THEN grouped
       ELSE OrderFrame(grouped.df, order_by_node)

\* generate_aggregation_row: one row, each aggregation over the whole frame
generate_aggregation_row(df, aggregate_columns) ==
    IF MissingOf(df, aggregate_columns) # {} THEN Fail("ColumnNotFound")
    ELSE Ok(DataFrame(OutCols(aggregate_columns),
                      << [i \in 1..Len(aggregate_columns) |->
                            Aggregate(aggregate_columns[i].func,
                                      AggValues(df, df.rows,
                                                aggregate_columns[i].r.name))] >>))

\* the named columns taken in the order the frame holds them
ProjectInFrameOrder(df, column_names) ==
    IF \E n \in Range(column_names) : ~HasColumn(df, n) THEN Fail("ColumnNotFound")
    ELSE LET kept == SelectSeq(df.cols, LAMBDA c : c \in Range(column_names))
         IN Ok(DataFrame(kept,
                         [r \in 1..Len(df.rows) |->
                             [i \in 1..Len(kept) |-> Cell(df, df.rows[r], kept[i])]]))

\* data[column_names]: the named columns, in the order requested
Project(df, column_names) ==
    IF \E n \in Range(column_names) : ~HasColumn(df, n) THEN Fail("ColumnNotFound")
    ELSE Ok(DataFrame(column_names,
                      [r \in 1..Len(df.rows) |->
                          [i \in 1..Len(column_names) |->
                              Cell(df, df.rows[r], column_names[i])]]))

---------------------------------------------------------------------------
(* transform_select, core.py:22-113 *)

Criteria(columns, distinct, filter, group, order, limit_or_tail) ==
    [COLUMNS |-> columns, DISTINCT |-> distinct, FILTER |-> filter,
     GROUP |-> group, ORDER |-> order, LIMIT_OR_TAIL |-> limit_or_tail]

\* core.py:28-30
AreSelectColumnsAggregation(criteria) ==
    IF criteria.COLUMNS # AllColumns
    THEN \A i \in 1..Len(criteria.COLUMNS.items) :
            criteria.COLUMNS.items[i].t = "tuple"
    ELSE FALSE

\* the stages in the order the function body lists them
StageOrder == <<"filter", "order", "group_or_project", "distinct", "limit">>

\* the order with DISTINCT and LIMIT / TAIL exchanged
StageAfterLimitBeforeDistinct(stage) ==
    CASE stage = "filter" -> "order"
      [] stage = "order" -> "group_or_project"
      [] stage = "group_or_project" -> "limit"
      [] stage = "limit" -> "distinct"
      [] OTHER -> "store"

\* the statement control reaches after a stage: the next stage, then the
\* store into the slot and the return
StageAfter(stage) ==
    LET i == IndexOf(StageOrder, stage)
    IN IF i < Len(StageOrder) THEN StageOrder[i + 1] ELSE "store"

\* core.py:33, the guard of the WHERE stage
RunsFilter(criteria) == Truthy(criteria.FILTER)

\* core.py:34
StageFilter(df, criteria) == apply_filtering(df, criteria.FILTER)

\* the guard of the ordering stage without the test of the select list
RunsOrderWithAggregations(criteria, agg) ==
    ~Truthy(criteria.GROUP) /\ Truthy(criteria.ORDER)

\* core.py:37, the guard of the sort of the raw rows
RunsOrder(criteria, agg) ==
    ~Truthy(criteria.GROUP) /\ Truthy(criteria.ORDER) /\ ~agg

\* core.py:38-39
StageOrderBy(df, criteria) == apply_order_by_without_groupby(df, criteria.ORDER)

\* core.py:42 and 57, the guard of the grouping or projection stage
RunsGroupOrProject(criteria) ==
    Truthy(criteria.GROUP) \/ criteria.COLUMNS # AllColumns

\* the GROUP BY branch with the grouping and ordering done first and the
\* check of the select list after them
StageGroupCheckedLate(df, criteria) ==
    LET keys == group_by_columns_names(df, criteria.GROUP)
        sel == convert_select_column_indices_to_name(df, criteria.COLUMNS)
        groupby_cols == get_unique([i \in 1..Len(keys) |-> keys[i].name])
        grouped == IF Truthy(criteria.ORDER)
                   THEN apply_groupby_with_order(df, sel, groupby_cols, criteria.ORDER)
                   ELSE apply_groupby(df, sel, groupby_cols)
    IN IF FirstErr(keys) # "none" THEN Fail(FirstErr(keys))
       ELSE IF FirstErr([i \in 1..Len(sel) |-> sel[i].r]) # "none"
            THEN Fail(FirstErr([i \in 1..Len(sel) |-> sel[i].r]))
       ELSE IF grouped.err # "none" THEN grouped
       ELSE IF ~check_if_column_names_is_in_group_by(sel, groupby_cols)
            THEN Fail("ColumnNotInGroupBy")
       ELSE grouped

\* core.py:43-53
StageGroup(df, criteria) ==
    LET keys == group_by_columns_names(df, criteria.GROUP)
        sel == convert_select_column_indices_to_name(df, criteria.COLUMNS)
        groupby_cols == get_unique([i \in 1..Len(keys) |-> keys[i].name])
    IN IF FirstErr(keys) # "none" THEN Fail(FirstErr(keys))
       ELSE IF FirstErr([i \in 1..Len(sel) |-> sel[i].r]) # "none"
            THEN Fail(FirstErr([i \in 1..Len(sel) |-> sel[i].r]))
       ELSE IF ~check_if_column_names_is_in_group_by(sel, groupby_cols)
            THEN Fail("ColumnNotInGroupBy")
       ELSE IF Truthy(criteria.ORDER)
            THEN apply_groupby_with_order(df, sel, groupby_cols, criteria.ORDER)
       ELSE apply_groupby(df, sel, groupby_cols)

\* core.py:64-78: a select list made only of aggregations, no GROUP BY
StageAggregate(df, columns) ==
    LET aggregate_columns ==
            [i \in 1..Len(columns.items) |->
                [agg |-> TRUE, func |-> columns.items[i].func,
                 r |-> ResolveRef(df, columns.items[i].col)]]
        e == FirstErr([i \in 1..Len(aggregate_columns) |-> aggregate_columns[i].r])
    IN IF e # "none" THEN Fail(e)
       ELSE generate_aggregation_row(df, aggregate_columns)

\* a projection, no GROUP BY, that leaves the aggregations out of a mixed
\* select list and projects its plain columns
StageProjectSkipsAggregations(df, columns) ==
    LET plain == SelectSeq(columns.items, LAMBDA x : x.t # "tuple")
        rs == [i \in 1..Len(plain) |-> ResolveRef(df, plain[i].s)]
    IN IF FirstErr(rs) # "none" THEN Fail(FirstErr(rs))
       ELSE Project(df, [i \in 1..Len(rs) |-> rs[i].name])

\* core.py:80-94: a projection, no GROUP BY
StageProject(df, columns) ==
    IF \E i \in 1..Len(columns.items) : columns.items[i].t = "tuple"
    THEN Fail("MixedAggregationWithoutGroup")
    ELSE
        LET rs == [i \in 1..Len(columns.items) |-> ResolveRef(df, columns.items[i].s)]
        IN IF FirstErr(rs) # "none" THEN Fail(FirstErr(rs))
           ELSE Project(df, [i \in 1..Len(rs) |-> rs[i].name])

\* core.py:42-94
StageGroupOrProject(df, criteria, agg) ==
    IF Truthy(criteria.GROUP) THEN StageGroup(df, criteria)
    ELSE IF agg THEN StageAggregate(df, criteria.COLUMNS)
    ELSE StageProject(df, criteria.COLUMNS)

\* core.py:97, the guard of DISTINCT
RunsDistinct(criteria) == criteria.DISTINCT

\* core.py:98
StageDistinct(df) == Ok(drop_duplicates(df))

\* core.py:101, the guard of LIMIT / TAIL
RunsLimit(criteria) == ~IsNone(criteria.LIMIT_OR_TAIL)

\* LIMIT 0 / TAIL 0 answered with pd.DataFrame(): the columns are lost
StageLimitZeroLosesColumns(df, limit_or_tail) ==
    LET operator == limit_or_tail.operator
        number == limit_or_tail.number
    IN IF ~IsInstanceInt(number) THEN Fail("InvalidLimit")
       ELSE IF number.v < 0 THEN Fail("InvalidLimit")
       ELSE IF number.v = 0 THEN Ok(NewDataFrame)
       ELSE IF operator = "limit" THEN Ok(head(df, number.v))
       ELSE Ok(tail(df, number.v))

\* the check of n without `number < 0`
StageLimitAllowsNegative(df, limit_or_tail) ==
    LET operator == limit_or_tail.operator
        number == limit_or_tail.number
    IN IF ~IsInstanceInt(number) THEN Fail("InvalidLimit")
       ELSE IF number.v = 0 THEN Ok(EmptyLike(df))
       ELSE IF operator = "limit" THEN Ok(head(df, number.v))
       ELSE Ok(tail(df, number.v))

\* the kind compared without regard to case
StageLimitFoldsCase(df, limit_or_tail) ==
    LET operator == limit_or_tail.operator
        number == limit_or_tail.number
    IN IF ~IsInstanceInt(number) THEN Fail("InvalidLimit")
       ELSE IF number.v < 0 THEN Fail("InvalidLimit")
       ELSE IF number.v = 0 THEN Ok(EmptyLike(df))
       ELSE IF operator \in {"limit", "LIMIT"} THEN Ok(head(df, number.v))
       ELSE Ok(tail(df, number.v))

\* core.py:102-110
StageLimit(df, limit_or_tail) ==
    LET operator == limit_or_tail.operator
        number == limit_or_tail.number
    IN IF ~IsInstanceInt(number) THEN Fail("InvalidLimit")
       ELSE IF number.v < 0 THEN Fail("InvalidLimit")
       ELSE IF number.v = 0 THEN Ok(EmptyLike(df))
       ELSE IF operator = "limit" THEN Ok(head(df, number.v))
       ELSE Ok(tail(df, number.v))

---------------------------------------------------------------------------
(* Inputs of the engine calls *)

cG == <<"g">>
cV == <<"v">>
cA == <<"a">>
cB == <<"b">>
cStar == <<"*">>
Idx0 == <<"[", "0", "]">>
Idx1 == <<"[", "1", "]">>
Idx2 == <<"[", "2", "]">>

\* the index 0 written with 4301 digits
IdxLong == <<"[">> \o [i \in 1..4301 |-> "0"] \o <<"]">>

CellValues == {0, 1}

\* every sequence of at most n elements of S
SeqsUpTo(S, n) == UNION {[1..k -> S] : k \in 0..n}

\* relations handed to transform_select: absent, without columns, and every
\* relation (g, v) of at most MaxRows rows
TransformInputs ==
    {NoneVal, NewDataFrame} \cup
    {DataFrame(<<cG, cV>>, rows) : rows \in SeqsUpTo([1..2 -> CellValues], MaxRows)}

SelectLists ==
    {AllColumns,
     PyList(<<PyStr(cG)>>),
     PyList(<<PyStr(cV), PyStr(cG)>>),
     PyList(<<PyStr(Idx1)>>),
     PyList(<<PyStr(Idx2)>>),
     PyList(<<PyStr(Idx1), PyStr(Idx0)>>),
     PyList(<<PyStr(cG), PyStr(Idx2)>>),
     PyList(<<PyTuple(FnSum, cV)>>),
     PyList(<<PyStr(cG), PyTuple(FnSum, cV)>>),
     PyList(<<PyTuple(FnSize, cStar)>>)}

Filters == {NoneVal, Cond(">=", PyStr(cV), PyInt(1))}

Groups == {NoneVal, PyList(<<PyStr(cG)>>), PyList(<<PyStr(Idx0), PyStr(cG)>>)}

Orders ==
    {NoneVal,
     OrderByNode(<<OrderByParameter(ColumnNameNode(cV), "DESC")>>),
     OrderByNode(<<OrderByParameter(ColumnNameNode(cG), "ASC"),
                   OrderByParameter(ColumnIndexNode(1), "DESC")>>)}

LimitKinds == {"limit", "tail", "LIMIT"}

\* the n of LIMIT n / TAIL n: integers around the row counts, and values that
\* are not int
LimitNumbers ==
    {PyInt(n) : n \in (0 - 1)..(MaxRows + 1)} \cup
    {PyFloat(15), PyFloat(10), PyStr(<<"1">>), NoneVal}

Limits ==
    {NoneVal} \cup {LimitOrTail(k, n) : k \in LimitKinds, n \in LimitNumbers}

\* criteria bundles: every select list, filter, grouping and ordering with a
\* few limits, every limit with a few select lists and orderings, and the
\* long index with every filter.  The wildcard is not combined with a
\* GROUP BY.
CriteriaSet ==
    {c \in {Criteria(cols, d, f, g, o, l) :
                cols \in SelectLists, d \in BOOLEAN, f \in Filters, g \in Groups,
                o \in Orders, l \in {NoneVal, LimitOrTail("tail", PyInt(1))}} :
        ~(c.COLUMNS = AllColumns /\ Truthy(c.GROUP))}
    \cup
    {Criteria(cols, d, f, NoneVal, o, l) :
        cols \in {AllColumns, PyList(<<PyStr(cV), PyStr(cG)>>), PyList(<<PyStr(Idx2)>>)},
        d \in BOOLEAN, f \in Filters,
        o \in {NoneVal, OrderByNode(<<OrderByParameter(ColumnNameNode(cV), "DESC")>>)},
        l \in Limits}
    \cup
    {Criteria(PyList(<<PyStr(IdxLong)>>), FALSE, f, NoneVal, NoneVal, NoneVal) :
        f \in Filters}

\* relations handed to join
JoinRows == {<<>>, << <<0, 0>> >>, << <<0, 1>>, <<1, 0>> >>}
JoinLefts ==
    {NoneVal, NewDataFrame} \cup {DataFrame(<<cA, cG>>, rows) : rows \in JoinRows}
JoinRights ==
    {NoneVal, NewDataFrame} \cup {DataFrame(<<cB, cG>>, rows) : rows \in JoinRows}
JoinColumns == {cA, cB, cG}
JoinKinds == {"inner", "left", "right", "outer", "full", "INNER", "cross"}

---------------------------------------------------------------------------
(* The engine serving one call *)

NoCall == [op |-> "none"]

EngineInit ==
    /\ transformed_data = NoneVal
    /\ pc = "idle"
    /\ call = NoCall
    /\ data = NoneVal
    /\ are_select_columns_aggregation = FALSE
    /\ ret = NoReturn
    /\ err = "none"
    /\ stages = <<>>

PlanIdle ==
    /\ stmt = NoneVal
    /\ plan = <<>>
    /\ ip = 0
    /\ env = [v \in {} |-> NoneVal]
    /\ log = <<>>
    /\ tokens = NoneVal
    /\ raised = NoneVal

\* the queries issued against the process, two at most
QueryIds == {1, 2}

\* no query has made a call yet
QueriesIdle ==
    queries = [running |-> 0,
               at |-> [q \in QueryIds |-> "join"],
               val |-> [q \in QueryIds |-> NoneVal],
               alone |-> [q \in QueryIds |-> NoneVal],
               seen |-> [q \in QueryIds |-> <<>>]]

Init == EngineInit /\ PlanIdle /\ QueriesIdle

\* the entry of transform_select without the check for None
CallTransformSelectUnchecked(d, criteria) ==
    /\ pc = "idle"
    /\ call' = [op |-> "transform_select", data |-> d, criteria |-> criteria]
    /\ data' = d
    /\ are_select_columns_aggregation' = AreSelectColumnsAggregation(criteria)
    /\ pc' = StageOrder[1]
    /\ UNCHANGED <<err, transformed_data, ret, stages, planVars>>

\* core.py:22-30: entry of transform_select
CallTransformSelect(d, criteria) ==
    /\ pc = "idle"
    /\ call' = [op |-> "transform_select", data |-> d, criteria |-> criteria]
    /\ IF IsNone(d)
       THEN /\ err' = "NullInput"
            /\ pc' = "done"
            /\ UNCHANGED <<data, are_select_columns_aggregation>>
       ELSE /\ data' = d
            /\ are_select_columns_aggregation' = AreSelectColumnsAggregation(criteria)
            /\ pc' = StageOrder[1]
            /\ UNCHANGED err
    /\ UNCHANGED <<transformed_data, ret, stages, planVars>>

\* one stage: skipped when its guard is false; otherwise it replaces `data`
\* by its outcome, or raises
Stage(name, runs, outcome) ==
    /\ pc = name
    /\ IF ~runs
       THEN /\ pc' = StageAfter(name)
            /\ UNCHANGED <<data, err, stages>>
       ELSE /\ stages' = Append(stages, name)
            /\ IF outcome.err # "none"
               THEN /\ err' = outcome.err
                    /\ pc' = "done"
                    /\ UNCHANGED data
               ELSE /\ data' = outcome.df
                    /\ pc' = StageAfter(name)
                    /\ UNCHANGED err
    /\ UNCHANGED <<transformed_data, call, are_select_columns_aggregation, ret,
                   planVars>>

\* core.py:32-34
Filter ==
    /\ pc = "filter"
    /\ Stage("filter", RunsFilter(call.criteria), StageFilter(data, call.criteria))

\* core.py:36-39
PreGroupOrder ==
    /\ pc = "order"
    /\ Stage("order", RunsOrder(call.criteria, are_select_columns_aggregation),
             StageOrderBy(data, call.criteria))

\* core.py:41-94
GroupOrProject ==
    /\ pc = "group_or_project"
    /\ Stage("group_or_project", RunsGroupOrProject(call.criteria),
             StageGroupOrProject(data, call.criteria,
                                 are_select_columns_aggregation))

\* core.py:96-98
Distinct ==
    /\ pc = "distinct"
    /\ Stage("distinct", RunsDistinct(call.criteria), StageDistinct(data))

\* core.py:100-110
LimitOrTailStage ==
    /\ pc = "limit"
    /\ Stage("limit", RunsLimit(call.criteria),
             StageLimit(data, call.criteria.LIMIT_OR_TAIL))

\* core.py:112-113
StoreAndReturn ==
    /\ pc = "store"
    /\ transformed_data' = data
    /\ ret' = data
    /\ pc' = "done"
    /\ UNCHANGED <<call, data, are_select_columns_aggregation, err, stages, planVars>>

\* core.py:22-113: what one call of transform_select leaves behind, the
\* stages taken in the order of the function body
transform_select(d, criteria, slot) ==
    IF IsNone(d) THEN Raise("NullInput", slot)
    ELSE
        LET agg == AreSelectColumnsAggregation(criteria)
            s1 == IF RunsFilter(criteria) THEN StageFilter(d, criteria) ELSE Ok(d)
            s2 == IF s1.err = "none" /\ RunsOrder(criteria, agg)
                  THEN StageOrderBy(s1.df, criteria) ELSE s1
            s3 == IF s2.err = "none" /\ RunsGroupOrProject(criteria)
                  THEN StageGroupOrProject(s2.df, criteria, agg) ELSE s2
            s4 == IF s3.err = "none" /\ RunsDistinct(criteria)
                  THEN StageDistinct(s3.df) ELSE s3
            s5 == IF s4.err = "none" /\ RunsLimit(criteria)
                  THEN StageLimit(s4.df, criteria.LIMIT_OR_TAIL) ELSE s4
        IN IF s5.err # "none" THEN Raise(s5.err, slot) ELSE Return(s5.df)

\* core.py:115-157: one call of join
Join(df1, df2, left_col, right_col, how) ==
    /\ pc = "idle"
    /\ call' = [op |-> "join", df1 |-> df1, df2 |-> df2, left_col |-> left_col,
                right_col |-> right_col, how |-> how]
    /\ LET r == join(df1, df2, left_col, right_col, how, transformed_data)
       IN /\ err' = r.err
          /\ ret' = r.ret
          /\ transformed_data' = r.slot
    /\ pc' = "done"
    /\ UNCHANGED <<data, are_select_columns_aggregation, stages, planVars>>

\* core.py:167-169
get_transformed_data ==
    /\ pc = "idle"
    /\ call' = [op |-> "get_transformed_data"]
    /\ ret' = transformed_data
    /\ pc' = "done"
    /\ UNCHANGED <<transformed_data, data, are_select_columns_aggregation, err,
                   stages, planVars>>

\* core.py:171-173
clear_transformed_data ==
    /\ pc = "idle"
    /\ call' = [op |-> "clear_transformed_data"]
    /\ transformed_data' = NoneVal
    /\ ret' = NoneVal
    /\ pc' = "done"
    /\ UNCHANGED <<data, are_select_columns_aggregation, err, stages, planVars>>

\* a caller makes one call: transform_select on any relation and criteria
\* bundle
CallerTransforms ==
    /\ pc = "idle"
    /\ \E d \in TransformInputs, criteria \in CriteriaSet :
            CallTransformSelect(d, criteria)

\* a caller makes one call: join on any two relations, columns and kind
CallerJoins ==
    /\ pc = "idle"
    /\ \E df1 \in JoinLefts, df2 \in JoinRights,
          left_col \in JoinColumns, right_col \in JoinColumns, how \in JoinKinds :
            Join(df1, df2, left_col, right_col, how)

Next ==
    \/ CallerTransforms
    \/ Filter
    \/ PreGroupOrder
    \/ GroupOrProject
    \/ Distinct
    \/ LimitOrTailStage
    \/ StoreAndReturn
    \/ CallerJoins

Spec == Init /\ [][Next]_vars

---------------------------------------------------------------------------
(* The plan builder, yacc.py:41-131, and the grammar actions that feed it *)

\* text.split(":", 1) unpacked into two names: the text before the first ":"
\* and the text after it; without a ":" the unpacking raises ValueError
SplitFirstColon(text) ==
    LET i == IndexOf(text, ":")
    IN IF i = 0 THEN [err |-> "ValueError", head |-> <<>>, tail |-> <<>>]
       ELSE [err |-> "none", head |-> SubSeq(text, 1, i - 1),
             tail |-> SubSeq(text, i + 1, Len(text))]

\* an aggregation function applied to the wildcard without the check of the
\* function
p_aggregation_functionUnchecked(func, col) ==
    [err |-> "none", value |-> PyTuple(func, col)]

\* yacc.py:401-411, aggregation_function : AGGREGATION_FUNCTION LPAREN column
\* RPAREN | AGGREGATION_FUNCTION LPAREN TIMES RPAREN: the tuple (func, column),
\* or ParserError when the column is "*" and the function is not "size"
p_aggregation_function(func, col) ==
    IF col = <<"*">> /\ func # FnSize
    THEN [err |-> "SyntaxError", value |-> NoneVal]
    ELSE [err |-> "none", value |-> PyTuple(func, col)]

\* str.isdigit(): the text is not empty and holds digits only
IsDigitText(text) ==
    text # <<>> /\ \A i \in 1..Len(text) : InRanges(Ord(text[i]), DigitRanges)

\* yacc.py:378-385, column : COLNUMBER | BRACKETED_COLNAME | SIMPLE_COLNAME:
\* the text of the token, without its brackets when it is bracketed and the
\* text between the brackets is not a number
p_column(c) ==
    IF is_column_number(c) /\ ~IsDigitText(Inner(c)) THEN Inner(c) ELSE c

\* yacc.py:388-398 and 417-425: the reductions that build the select list
\* written as `columns`; the first exception raised by one of them ends the
\* parse
ParseSelectColumns(columns) ==
    IF columns = AllColumns THEN "none"
    ELSE FirstErr([i \in 1..Len(columns.items) |->
                      IF columns.items[i].t = "tuple"
                      THEN p_aggregation_function(columns.items[i].func,
                                                  columns.items[i].col)
                      ELSE [err |-> "none", value |-> columns.items[i]]])

\* yacc.py:480-487, custom_aggregation_column : AGGREGATION_FUNCTION LPAREN
\* custom_column RPAREN | AGGREGATION_FUNCTION LPAREN TIMES RPAREN, the
\* aggregation of an ORDER BY parameter: the "*" of size becomes a column
\* name node, any other column is kept as written; nothing is raised
p_custom_aggregation_column(function, column) ==
    AggregationNode(function,
                    IF function = FnSize /\ column = PyStr(cStar)
                    THEN ColumnNameNode(cStar) ELSE column)

\* yacc.py:490-495, order_by_param : custom_aggregation_column way
p_order_by_param(parameter, way) == OrderByParameter(parameter, way)

\* yacc.py:137-150, table_source
table_source(datasource, alias) == [datasource |-> datasource, alias |-> alias]

\* yacc.py:244-248, qualified_column : SIMPLE_COLNAME DOT SIMPLE_COLNAME:
\* the text f"{p[1]}.{p[3]}"
p_qualified_column_with_table(table, col) == table \o <<".">> \o col

\* yacc.py:251-253, qualified_column : column
p_qualified_column_no_table(col) == col

\* yacc.py:233-238, on_conditions : qualified_column EQUAL qualified_column
on_conditions_base(left, right) == [left |-> left, right |-> right]

\* yacc.py:221-230, on_conditions : on_conditions AND on_conditions |
\* on_conditions OR on_conditions: a dict of the operator and the two dicts
on_conditions_complex(operator, left, right) ==
    [operator |-> operator, left |-> left, right |-> right]

\* the dict of a condition combined with AND / OR
IsComposite(on) == "operator" \in DOMAIN on

\* n written with w hexadecimal digits, in lower case
HexText(n, w) == [k \in 1..w |-> HexDigits[((n \div (16 ^ (w - k))) % 16) + 1]]

\* repr() of a str: between double quotes when it holds a single quote and
\* no double quote, between single quotes otherwise; a backslash and the
\* enclosing quote get a backslash, tab, line feed and carriage return are
\* written \t, \n, \r, and every other character that is not printable is
\* written \xhh, \uhhhh or \Uhhhhhhhh by the size of its code
StrRepr(text) ==
    LET q == IF "'" \in Range(text) /\ "\"" \notin Range(text) THEN "\"" ELSE "'"
        esc(c) == CASE c = "\\" -> <<"\\", "\\">>
                    [] c = q -> <<"\\", q>>
                    [] c = "\n" -> <<"\\", "n">>
                    [] c = "\t" -> <<"\\", "t">>
                    [] c = "\r" -> <<"\\", "r">>
                    [] c \in Range(Ascii) -> <<c>>
                    [] OTHER ->
                            With(Ord(c), LAMBDA n :
                                 IF ~InRanges(n, NonPrintableRanges) THEN <<c>>
                                 ELSE IF n < 256 THEN <<"\\", "x">> \o HexText(n, 2)
                                 ELSE IF n < 65536 THEN <<"\\", "u">> \o HexText(n, 4)
                                 ELSE <<"\\", "U">> \o HexText(n, 8))
        out[i \in 0..Len(text)] ==
            IF i = 0 THEN <<>> ELSE out[i - 1] \o esc(text[i])
    IN <<q>> \o out[Len(text)] \o <<q>>

\* repr() of the dict of an ON condition, keys in insertion order
RECURSIVE DictRepr(_)
DictRepr(on) ==
    LET keys == IF IsComposite(on) THEN <<"operator", "left", "right">>
                ELSE <<"left", "right">>
        name == [operator |-> <<"o", "p", "e", "r", "a", "t", "o", "r">>,
                 left |-> <<"l", "e", "f", "t">>,
                 right |-> <<"r", "i", "g", "h", "t">>]
        item(k) == <<"'">> \o name[k] \o <<"'", ":", " ">> \o
                   (IF IsComposite(on) /\ k # "operator" THEN DictRepr(on[k])
                    ELSE StrRepr(on[k]))
        out[i \in 0..Len(keys)] ==
            IF i = 0 THEN <<>>
            ELSE out[i - 1] \o (IF i > 1 THEN <<",", " ">> ELSE <<>>) \o item(keys[i])
    IN <<"{">> \o out[Len(keys)] \o <<"}">>

\* yacc.py:102-103, f"{on_condition['left']}" and f"{on_condition['right']}":
\* the text of a str, the repr of a dict
FormatOnLeft(on) == IF IsComposite(on) THEN DictRepr(on.left) ELSE on.left
FormatOnRight(on) == IF IsComposite(on) THEN DictRepr(on.right) ELSE on.right

\* yacc.py:175-182, join_clause : join_type table_source on_statement
join_clause(join_type, source, on) ==
    [type |-> join_type, datasource |-> source.datasource, alias |-> source.alias,
     on |-> on]

\* yacc.py:162-164, join_clauses : join_clause
p_join_clauses_single(clause) == PyList(<<clause>>)

\* the reduction with the new clause put in front of the list
p_join_clausesPrepend(clauses, clause) == PyList(<<clause>> \o clauses.items)

\* yacc.py:156-159, join_clauses : join_clauses join_clause
p_join_clauses(clauses, clause) == PyList(Append(clauses.items, clause))

\* yacc.py:167-169, join_clauses : empty
p_join_clauses_empty == NoneVal

\* the value of join_clauses for the JOIN clauses of a statement as written:
\* the reductions the parser makes, left to right
ParseJoinClauses(written) ==
    LET acc[i \in 0..Len(written)] ==
            IF i = 0 THEN p_join_clauses_empty
            ELSE IF i = 1 THEN p_join_clauses_single(written[1])
            ELSE p_join_clauses(acc[i - 1], written[i])
    IN acc[Len(written)]

\* names of the variables of the generated code
ExtractedData == <<"extracted_data">>
TransformedData == <<"transformed_data">>
\* yacc.py:89, f"join_df_{idx}"
JoinVar(idx) == <<"join_df_", idx>>

\* statements of the generated code; `type`, `path` and the column names are
\* the text put between single quotes
ExtractStmt(target, type, path) ==
    [op |-> "extract", target |-> target, type |-> type, path |-> path]
JoinStmt(target, left, right, left_col, right_col, how) ==
    [op |-> "join", target |-> target, left |-> left, right |-> right,
     left_col |-> left_col, right_col |-> right_col, how |-> how]
TransformStmt(target, arg, criteria) ==
    [op |-> "transform_select", target |-> target, arg |-> arg, criteria |-> criteria]
LoadStmt(arg, type, path) ==
    [op |-> "load", arg |-> arg, type |-> type, path |-> path]

\* yacc.py:56-64: the load call, emitted when INTO gave a type and a path
LoadCall(into) ==
    IF ~Truthy(into) THEN [err |-> "none", code |-> <<>>]
    ELSE LET parts == SplitFirstColon(into.s)
         IN IF parts.err # "none" THEN [err |-> parts.err, code |-> <<>>]
            ELSE IF parts.head # <<>> /\ parts.tail # <<>>
                 THEN [err |-> "none",
                       code |-> <<LoadStmt(TransformedData, parts.head, parts.tail)>>]
            ELSE [err |-> "none", code |-> <<>>]

\* yacc.py:66-67: the extraction of the FROM source
ExtractCode(main_table) ==
    LET parts == SplitFirstColon(main_table.datasource)
    IN IF parts.err # "none" THEN [err |-> parts.err, code |-> <<>>]
       ELSE [err |-> "none",
             code |-> <<ExtractStmt(ExtractedData, parts.head, parts.tail)>>]

\* yacc.py:79-105, the body of the loop for clause number idx (0-based): the
\* extraction of the clause's source, then the join against extracted_data
JoinClauseCode(idx, clause) ==
    LET parts == SplitFirstColon(clause.datasource)
    IN IF parts.err # "none" THEN [err |-> parts.err, code |-> <<>>]
       ELSE [err |-> "none",
             code |-> <<ExtractStmt(JoinVar(idx), parts.head, parts.tail),
                        JoinStmt(ExtractedData, ExtractedData, JoinVar(idx),
                                 FormatOnLeft(clause.on), FormatOnRight(clause.on),
                                 clause.type)>>]

\* yacc.py:74-105: the code of all the JOIN clauses, in list order
JoinCode(join_clauses) ==
    IF ~Truthy(join_clauses) THEN [err |-> "none", code |-> <<>>]
    ELSE
        LET n == Len(join_clauses.items)
            each == [i \in 1..n |-> JoinClauseCode(i - 1, join_clauses.items[i])]
            acc[i \in 0..n] ==
                IF i = 0 THEN <<>> ELSE acc[i - 1] \o each[i].code
        IN [err |-> FirstErr(each), code |-> acc[n]]

\* yacc.py:69-72 and 94-96: the dict alias_mapping, alias -> variable of the
\* generated code.  An assignment to a key the dict already has replaces its
\* value: the last declaration of an alias wins, and nothing is raised.
AliasMapping(s) ==
    LET clauses == IF Truthy(s.join_clauses) THEN s.join_clauses.items ELSE <<>>
        decl == <<[alias |-> s.table_source.alias, var |-> ExtractedData]>> \o
                [i \in 1..Len(clauses) |->
                    [alias |-> clauses[i].alias, var |-> JoinVar(i - 1)]]
        given == {i \in 1..Len(decl) : Truthy(decl[i].alias)}
        last(a) == CHOOSE i \in given :
                      /\ decl[i].alias.s = a
                      /\ \A j \in given : decl[j].alias.s = a => j <= i
    IN [a \in {decl[i].alias.s : i \in given} |-> decl[last(a)].var]

\* yacc.py:119-129: the transform_select call with the criteria bundle
TransformCode(s) ==
    <<TransformStmt(TransformedData, ExtractedData,
                    Criteria(s.select_columns, s.distinct, s.where, s.group,
                             s.order, s.limit_or_tail))>>

\* p_select, yacc.py:41-131: the generated code for a parsed SELECT, or the
\* exception raised while building it
p_select(s) ==
    With(ExtractCode(s.table_source), LAMBDA main :
    With(LoadCall(s.into), LAMBDA load_call :
    With(JoinCode(s.join_clauses), LAMBDA join_code :
         IF main.err # "none" THEN [err |-> main.err, code |-> <<>>]
         ELSE IF load_call.err # "none" THEN [err |-> load_call.err, code |-> <<>>]
         ELSE IF join_code.err # "none" THEN [err |-> join_code.err, code |-> <<>>]
         ELSE [err |-> "none",
               code |-> main.code \o join_code.code \o TransformCode(s) \o
                        load_call.code])))

---------------------------------------------------------------------------
(* Running the generated code *)

\* outcomes of reading generated text: a value, a SyntaxError, or text
\* outside the part of Python modelled here
Read(s) == [kind |-> "ok", s |-> s]
NotRead(kind) == [kind |-> kind, s |-> <<>>]

\* the str denoted by the body of a string literal (the text between its
\* delimiting quotes): every backslash escape of Python is replaced by the
\* character it stands for, a backslash before a line end (line feed,
\* carriage return, or the two in a row) joins the lines, an unknown escape
\* keeps its backslash, and \x, \u and \U without their 2, 4 and 8
\* hexadecimal digits are syntax errors; \N{name} is not modelled
RECURSIVE EvalEscapesFrom(_, _, _)
EvalEscapesFrom(body, i, acc) ==
    IF i > Len(body) THEN Read(acc)
    ELSE IF body[i] # "\\" THEN EvalEscapesFrom(body, i + 1, Append(acc, body[i]))
    ELSE IF i = Len(body) THEN NotRead("SyntaxError")
    ELSE
        LET c == body[i + 1]
            hexes(n) == /\ i + 1 + n <= Len(body)
                        /\ \A k \in (i + 2)..(i + 1 + n) : IsHex(body[k])
            octs == IF i + 2 <= Len(body) /\ IsOctal(body[i + 2])
                    THEN IF i + 3 <= Len(body) /\ IsOctal(body[i + 3]) THEN 3 ELSE 2
                    ELSE 1
        IN CASE c = "\n" -> EvalEscapesFrom(body, i + 2, acc)
             [] c = "\r" ->
                    IF i + 2 <= Len(body) /\ body[i + 2] = "\n"
                    THEN EvalEscapesFrom(body, i + 3, acc)
                    ELSE EvalEscapesFrom(body, i + 2, acc)
             [] c \in {"\\", "'", "\""} -> EvalEscapesFrom(body, i + 2, Append(acc, c))
             [] c = "a" -> EvalEscapesFrom(body, i + 2, Append(acc, Chr(7)))
             [] c = "b" -> EvalEscapesFrom(body, i + 2, Append(acc, Chr(8)))
             [] c = "f" -> EvalEscapesFrom(body, i + 2, Append(acc, Chr(12)))
             [] c = "n" -> EvalEscapesFrom(body, i + 2, Append(acc, Chr(10)))
             [] c = "r" -> EvalEscapesFrom(body, i + 2, Append(acc, Chr(13)))
             [] c = "t" -> EvalEscapesFrom(body, i + 2, Append(acc, Chr(9)))
             [] c = "v" -> EvalEscapesFrom(body, i + 2, Append(acc, Chr(11)))
             [] IsOctal(c) ->
                    EvalEscapesFrom(body, i + 1 + octs,
                                    Append(acc, Chr(NumberAt(body, i + 1, i + octs, 8))))
             [] c = "x" ->
                    IF hexes(2)
                    THEN EvalEscapesFrom(body, i + 4,
                                         Append(acc, Chr(NumberAt(body, i + 2, i + 3, 16))))
                    ELSE NotRead("SyntaxError")
             [] c = "u" ->
                    IF hexes(4)
                    THEN EvalEscapesFrom(body, i + 6,
                                         Append(acc, Chr(NumberAt(body, i + 2, i + 5, 16))))
                    ELSE NotRead("SyntaxError")
             [] c = "U" ->
                    IF /\ hexes(8) /\ body[i + 2] = "0" /\ body[i + 3] = "0"
                       /\ NumberAt(body, i + 4, i + 9, 16) <= 1114111
                    THEN EvalEscapesFrom(body, i + 10,
                                         Append(acc, Chr(NumberAt(body, i + 4, i + 9, 16))))
                    ELSE NotRead("SyntaxError")
             [] c = "N" ->
                    IF i + 2 <= Len(body) /\ body[i + 2] = "{"
                    THEN NotRead("unmodelled") ELSE NotRead("SyntaxError")
             [] OTHER -> EvalEscapesFrom(body, i + 2, acc \o <<"\\", c>>)

EvalEscapes(body) == EvalEscapesFrom(body, 1, <<>>)

\* the index of the quote that closes a literal opened by one quote q whose
\* body starts at j, or 0 when the line ends first; a backslash takes the
\* next character, or the line end, with it
RECURSIVE StringEnd(_, _, _)
StringEnd(text, q, j) ==
    IF j > Len(text) THEN 0
    ELSE IF text[j] = q THEN j
    ELSE IF text[j] = "\\" THEN
        IF j + 2 <= Len(text) /\ text[j + 1] = "\r" /\ text[j + 2] = "\n"
        THEN StringEnd(text, q, j + 3)
        ELSE StringEnd(text, q, j + 2)
    ELSE IF text[j] \in {"\n", "\r"} THEN 0
    ELSE StringEnd(text, q, j + 1)

\* the index of the first of the three quotes that close a literal opened by
\* three quotes q whose body starts at j, or 0 when the text ends first; a
\* backslash takes the next character with it
RECURSIVE LongStringEnd(_, _, _)
LongStringEnd(text, q, j) ==
    IF j + 2 > Len(text) THEN 0
    ELSE IF text[j] = "\\" THEN LongStringEnd(text, q, j + 2)
    ELSE IF text[j] = q /\ text[j + 1] = q /\ text[j + 2] = q THEN j
    ELSE LongStringEnd(text, q, j + 1)

\* the text with its line ends as the compiler reads them: a carriage
\* return and a line feed in a row, and a carriage return alone, are one
\* line feed
TranslateNewlines(text) ==
    LET marked == [i \in 1..Len(text) |->
                      [c |-> IF text[i] = "\r" THEN "\n" ELSE text[i],
                       drop |-> /\ text[i] = "\r" /\ i < Len(text)
                                /\ text[i + 1] = "\n"]]
        kept == SelectSeq(marked, LAMBDA m : ~m.drop)
    IN [k \in 1..Len(kept) |-> kept[k].c]

\* the hard keywords of Python, and the prefixes of a string literal
Keywords ==
    {<<"F", "a", "l", "s", "e">>, <<"N", "o", "n", "e">>,
     <<"T", "r", "u", "e">>, <<"a", "n", "d">>, <<"a", "s">>,
     <<"a", "s", "s", "e", "r", "t">>, <<"a", "s", "y", "n", "c">>,
     <<"a", "w", "a", "i", "t">>, <<"b", "r", "e", "a", "k">>,
     <<"c", "l", "a", "s", "s">>,
     <<"c", "o", "n", "t", "i", "n", "u", "e">>, <<"d", "e", "f">>,
     <<"d", "e", "l">>, <<"e", "l", "i", "f">>, <<"e", "l", "s", "e">>,
     <<"e", "x", "c", "e", "p", "t">>,
     <<"f", "i", "n", "a", "l", "l", "y">>, <<"f", "o", "r">>,
     <<"f", "r", "o", "m">>, <<"g", "l", "o", "b", "a", "l">>,
     <<"i", "f">>, <<"i", "m", "p", "o", "r", "t">>, <<"i", "n">>,
     <<"i", "s">>, <<"l", "a", "m", "b", "d", "a">>,
     <<"n", "o", "n", "l", "o", "c", "a", "l">>, <<"n", "o", "t">>,
     <<"o", "r">>, <<"p", "a", "s", "s">>, <<"r", "a", "i", "s", "e">>,
     <<"r", "e", "t", "u", "r", "n">>, <<"t", "r", "y">>,
     <<"w", "h", "i", "l", "e">>, <<"w", "i", "t", "h">>,
     <<"y", "i", "e", "l", "d">>}

StringPrefixes ==
    {<<"B">>, <<"B", "R">>, <<"B", "r">>, <<"F">>, <<"F", "R">>,
     <<"F", "r">>, <<"R">>, <<"R", "B">>, <<"R", "F">>, <<"R", "b">>,
     <<"R", "f">>, <<"U">>, <<"b">>, <<"b", "R">>, <<"b", "r">>, <<"f">>,
     <<"f", "R">>, <<"f", "r">>, <<"r">>, <<"r", "B">>, <<"r", "F">>,
     <<"r", "b">>, <<"r", "f">>, <<"u">>}

IsWordChar(c) ==
    \/ c \in Range(Digits) \/ c = "_"
    \/ c \in Range(SubSeq(Ascii, 34, 59)) \/ c \in Range(SubSeq(Ascii, 66, 91))

\* the last index of the run of word characters that starts at i
WordEnd(text, i) ==
    CHOOSE j \in i..Len(text) :
        /\ \A k \in i..j : IsWordChar(text[k])
        /\ j = Len(text) \/ ~IsWordChar(text[j + 1])

PyToken(k, s, end) == [k |-> k, s |-> s, end |-> end]

\* the value of a literal with the given prefix and body: a str literal
\* ("STRING") or a bytes literal ("BYTES").  A raw literal (r) keeps its
\* backslashes, any other has its escapes replaced; u changes nothing; a
\* formatted literal (f) without braces is a plain one.  A bytes literal
\* (b) holds ASCII only.  Formatted literals with braces and bytes literals
\* with backslashes are not modelled
LiteralValue(prefix, body) ==
    LET has(cs) == Range(prefix) \cap cs # {}
        as(kind, k, s) == [kind |-> kind, k |-> k, s |-> s]
    IN IF has({"b", "B"}) THEN
           IF \E j \in 1..Len(body) : Ord(body[j]) > 127
           THEN as("SyntaxError", "BYTES", <<>>)
           ELSE IF "\\" \in Range(body) THEN as("unmodelled", "BYTES", <<>>)
           ELSE as("ok", "BYTES", TranslateNewlines(body))
       ELSE IF has({"f", "F"}) /\ Range(body) \cap {"{", "}"} # {}
            THEN as("unmodelled", "STRING", <<>>)
       ELSE IF has({"r", "R"}) THEN as("ok", "STRING", TranslateNewlines(body))
       ELSE With(EvalEscapes(TranslateNewlines(body)), LAMBDA read :
                 as(read.kind, "STRING", read.s))

\* the literal that opens with the quote at i: its value and the index of
\* its last quote.  Three quotes in a row open a literal that three quotes
\* close, one quote a literal that ends on its line
Literal(text, i, prefix) ==
    LET long == i + 2 <= Len(text) /\ text[i + 1] = text[i] /\ text[i + 2] = text[i]
    IN With(IF long THEN LongStringEnd(text, text[i], i + 3)
            ELSE StringEnd(text, text[i], i + 1), LAMBDA e :
            IF e = 0
            THEN [kind |-> IF long THEN "unmodelled" ELSE "SyntaxError",
                  k |-> "STRING", s |-> <<>>, end |-> 0]
            ELSE With(LiteralValue(prefix,
                                   SubSeq(text, IF long THEN i + 3 ELSE i + 1, e - 1)),
                      LAMBDA v : [kind |-> v.kind, k |-> v.k, s |-> v.s,
                                  end |-> IF long THEN e + 2 ELSE e]))

\* tokens no expression allows side by side: a name or a number next to a
\* string literal, and a bytes literal next to a str literal
Clash(toks) ==
    \E i \in 1..(Len(toks) - 1) :
        \/ toks[i].k \in {"STRING", "BYTES"} /\ toks[i + 1].k \in {"NAME", "NUMBER"}
        \/ toks[i].k \in {"NAME", "NUMBER"} /\ toks[i + 1].k \in {"STRING", "BYTES"}
        \/ toks[i].k = "STRING" /\ toks[i + 1].k = "BYTES"
        \/ toks[i].k = "BYTES" /\ toks[i + 1].k = "STRING"

\* the run of word characters that starts at i, empty if there is none
WordAt(text, i) ==
    IF i <= Len(text) /\ IsWordChar(text[i]) THEN SubSeq(text, i, WordEnd(text, i))
    ELSE <<>>

\* the operators of more than one character, the longest first
Operators ==
    << <<"*", "*", "=">>, <<"/", "/", "=">>, <<"<", "<", "=">>, <<">", ">", "=">>,
       <<".", ".", ".">>,
       <<"*", "*">>, <<"/", "/">>, <<"<", "<">>, <<">", ">">>, <<"=", "=">>,
       <<"!", "=">>, <<"<", "=">>, <<">", "=">>, <<"<", ">">>, <<"-", ">">>,
       <<"+", "=">>, <<"-", "=">>, <<"*", "=">>, <<"/", "=">>, <<"%", "=">>,
       <<"&", "=">>, <<"|", "=">>, <<"^", "=">>, <<"@", "=">>, <<":", "=">> >>

\* the length of the operator that starts at i: the longest that fits, one
\* character if none of more does
OperatorLen(text, i) ==
    LET fits == {n \in 1..Len(Operators) :
                    /\ i + Len(Operators[n]) - 1 <= Len(text)
                    /\ SubSeq(text, i, i + Len(Operators[n]) - 1) = Operators[n]}
    IN IF fits = {} THEN 1
       ELSE Len(Operators[CHOOSE n \in fits : \A m \in fits : n <= m])

\* the number that starts at i, with a digit or with a point before a
\* digit: digits, then a point and digits if a point follows.  An integer
\* of more than one digit that starts with zero and is not zero is a syntax
\* error.  Underscores, exponents, other bases, imaginary numbers and a
\* number with a letter right after it are not modelled
NumberToken(text, i) ==
    LET whole == IF text[i] = "." THEN <<>> ELSE WordAt(text, i)
        dot == i + Len(whole)
        point == dot <= Len(text) /\ text[dot] = "."
        part == IF point THEN WordAt(text, dot + 1) ELSE <<>>
        end == IF point THEN dot + Len(part) ELSE dot - 1
        digits(w) == \A k \in 1..Len(w) : IsDigit(w[k])
    IN IF ~digits(whole \o part)
       THEN [kind |-> "unmodelled", end |-> 0]
       ELSE IF ~point /\ whole[1] = "0" /\ Range(whole) # {"0"}
       THEN [kind |-> "SyntaxError", end |-> 0]
       ELSE [kind |-> "ok", end |-> end]

\* the tokenizer at index i with the tokens read so far, and its ends: the
\* tokens of the whole text ("ok"), a syntax error, or text outside the part
\* of Python modelled here
Lexing(i, toks) == [kind |-> "lexing", i |-> i, toks |-> toks]
Lexed(kind, toks) == [kind |-> kind, i |-> 0, toks |-> toks]

\* reading stops at text that is not modelled, with the tokens read before it
GiveUp(before) == Lexed("unmodelled", before)

\* one step of the tokenizer over the text of call arguments: string
\* literals with their values, "+", ",", names, numbers and other
\* operators, each the longest that fits; blanks and line ends between
\* parentheses separate tokens.  A token ends at the index of its last
\* character.
\* A literal opens with one quote or with three, single or double, and the
\* name that ends right before the quote is its prefix if it is one.  A
\* literal opened by one quote and left open at the end of its line is a
\* syntax error.  Brackets, comments, keywords, backslashes outside a
\* literal, characters outside ASCII and a literal opened by three quotes
\* and left open are not modelled
TokenStep(text, t) ==
    IF t.kind # "lexing" THEN t
    ELSE IF t.i > Len(text) THEN Lexed("ok", t.toks)
    ELSE
        LET c == text[t.i]
            token(k, e) == Lexing(e + 1, Append(t.toks, PyToken(k, SubSeq(text, t.i, e), e)))
        IN CASE c \in {" ", "\t", "\f", "\n", "\r"} -> Lexing(t.i + 1, t.toks)
             [] c \in {"'", "\""} ->
                    LET prefixed == /\ t.toks # <<>> /\ t.toks[Len(t.toks)].k = "NAME"
                                    /\ t.toks[Len(t.toks)].end = t.i - 1
                                    /\ t.toks[Len(t.toks)].s \in StringPrefixes
                        before == IF prefixed THEN SubSeq(t.toks, 1, Len(t.toks) - 1)
                                  ELSE t.toks
                    IN With(Literal(text, t.i,
                                    IF prefixed THEN t.toks[Len(t.toks)].s ELSE <<>>),
                            LAMBDA lit :
                            IF lit.kind = "unmodelled" THEN GiveUp(before)
                            ELSE IF lit.kind # "ok" THEN Lexed(lit.kind, before)
                            ELSE Lexing(lit.end + 1,
                                        Append(before, PyToken(lit.k, lit.s, lit.end))))
             [] IsDigit(c) \/ (c = "." /\ t.i < Len(text) /\ IsDigit(text[t.i + 1])) ->
                    With(NumberToken(text, t.i), LAMBDA n :
                         IF n.kind = "unmodelled" THEN GiveUp(t.toks)
                         ELSE IF n.kind # "ok" THEN Lexed(n.kind, t.toks)
                         ELSE token("NUMBER", n.end))
             [] c \in {"#", "\\", "(", ")", "[", "]", "{", "}"} -> GiveUp(t.toks)
             [] IsWordChar(c) ->
                    With(WordEnd(text, t.i), LAMBDA e :
                         IF \/ SubSeq(text, t.i, e) \in Keywords
                            \/ e < Len(text) /\ Ord(text[e + 1]) > 127
                         THEN GiveUp(t.toks)
                         ELSE token("NAME", e))
             [] c \in Range(Ascii) ->
                    With(OperatorLen(text, t.i), LAMBDA n :
                         token(IF n > 1 THEN "OTHER" ELSE IF c = "+" THEN "PLUS"
                               ELSE IF c = "," THEN "COMMA" ELSE "OTHER",
                               t.i + n - 1))
             [] OTHER -> GiveUp(t.toks)

\* n steps of the tokenizer from t; an end stays as it is
RECURSIVE TokenizeFrom(_, _, _)
TokenizeFrom(text, t, n) ==
    IF n = 0 THEN t
    ELSE IF n = 1 THEN TokenStep(text, t)
    ELSE With(TokenizeFrom(text, t, n \div 2), LAMBDA d :
              TokenizeFrom(text, d, n - (n \div 2)))

\* the tokens of the text: every step but the last reads a character or
\* more
Tokenize(text) ==
    With(TokenizeFrom(text, Lexing(1, <<>>), Len(text) + 1), LAMBDA t :
         [kind |-> t.kind, toks |-> t.toks])

\* one argument of a call: the str it evaluates to, or the TypeError raised
\* while evaluating it
Arg(s) == [err |-> "none", s |-> s]
ArgFails(kind) == [err |-> kind, s |-> <<>>]

\* the value of an argument made of string literals and "+": adjacent
\* literals and literals joined by "+" are concatenated; a "+" with no
\* literal before it is the unary plus, which a str does not support
ArgValue(toks) ==
    LET unary == \E i \in 1..Len(toks) :
                    /\ toks[i].k = "PLUS"
                    /\ i = 1 \/ toks[i - 1].k = "PLUS"
        cat[i \in 0..Len(toks)] ==
            IF i = 0 THEN <<>>
            ELSE IF toks[i].k = "STRING" THEN cat[i - 1] \o toks[i].s
            ELSE cat[i - 1]
    IN IF unary THEN ArgFails("TypeError") ELSE Arg(cat[Len(toks)])

\* the arguments the tokens spell, split at the commas: a name or a number
\* next to a literal, a bytes literal next to a str literal, an argument
\* left empty and an argument that ends in "+" are syntax errors; any other
\* use of names, numbers, bytes literals and punctuation is not modelled
ParseArgs(toks) ==
    LET split[i \in 0..Len(toks)] ==
            IF i = 0 THEN [done |-> <<>>, cur |-> <<>>]
            ELSE IF toks[i].k = "COMMA"
                 THEN [done |-> Append(split[i - 1].done, split[i - 1].cur), cur |-> <<>>]
            ELSE [done |-> split[i - 1].done, cur |-> Append(split[i - 1].cur, toks[i])]
        args == Append(split[Len(toks)].done, split[Len(toks)].cur)
    IN IF Clash(toks) THEN [kind |-> "SyntaxError", args |-> <<>>]
       ELSE IF \E i \in 1..Len(toks) : toks[i].k \notin {"STRING", "PLUS", "COMMA"}
            THEN [kind |-> "unmodelled", args |-> <<>>]
       ELSE IF \E n \in 1..Len(args) :
                    args[n] = <<>> \/ args[n][Len(args[n])].k = "PLUS"
            THEN [kind |-> "SyntaxError", args |-> <<>>]
       ELSE [kind |-> "ok", args |-> [n \in 1..Len(args) |-> ArgValue(args[n])]]

\* the arguments Python reads from the text of call arguments: tokens that
\* clash are a syntax error whatever follows them
ArgsOf(text) ==
    With(Tokenize(text), LAMBDA t :
         IF t.kind = "ok" \/ Clash(t.toks) THEN ParseArgs(t.toks)
         ELSE [kind |-> t.kind, args |-> <<>>])

\* the text of the quoted arguments of one statement of the generated code,
\* from the first pasted quote to the last: yacc.py:63, 66 and 92 put type
\* and path on one line, yacc.py:102-103 put the two columns on two lines
ArgsText(st) ==
    CASE st.op \in {"extract", "load"} ->
            <<"'">> \o st.type \o <<"'", ",", " ", "'">> \o st.path \o <<"'">>
      [] st.op = "join" ->
            <<"'">> \o st.left_col \o <<"'", ",", "\n", " ", " ", " ", " ", "'">> \o
            st.right_col \o <<"'">>
      [] st.op = "insert" -> <<"'">> \o st.destination \o <<"'">>
      [] OTHER -> <<>>

\* the quoted arguments of a statement as Python reads them.  The arguments
\* of a call stand between parentheses, where a line end is white space; the
\* destination of an INSERT (yacc.py:276) stands on a line of its own, where
\* a line end closes the statement: a destination that holds one is not
\* modelled
CallArgs(st) ==
    IF st.op = "insert" /\ Range(st.destination) \cap {"\n", "\r"} # {}
    THEN [kind |-> "unmodelled", args |-> <<>>]
    ELSE ArgsOf(ArgsText(st))

\* the two quoted arguments of the statement evaluate to two strs; with
\* more or fewer arguments, or a unary plus, the statement raises TypeError
\* before the call
TwoArgs(st) ==
    /\ Len(CallArgs(st).args) = 2
    /\ \A n \in 1..2 : CallArgs(st).args[n].err = "none"

\* the statements of the generated code that carry quoted text
Quoting(code) ==
    {i \in 1..Len(code) : code[i].op \in {"extract", "join", "load", "insert"}}

\* the characters pasted between quotes into the code
Pasted(code) == UNION {Range(ArgsText(code[i])) : i \in Quoting(code)}

\* compiling the generated code as a whole: "ok", or the exception raised.
\* The text is encoded first, which a surrogate fails with
\* UnicodeEncodeError; a NUL character is refused next (SyntaxError, and
\* ValueError before Python 3.12); then the lines are read in order, and
\* the first statement that is not read as two arguments decides: a syntax
\* error, or text outside the part of Python modelled here ("unmodelled")
CompileResult(code) ==
    LET kinds == [i \in 1..Len(code) |->
                     IF i \in Quoting(code) THEN CallArgs(code[i]).kind ELSE "ok"]
    IN With({Ord(c) : c \in Pasted(code)}, LAMBDA codes :
            IF codes \cap (55296..57343) # {} THEN "UnicodeEncodeError"
            ELSE IF 0 \in codes THEN "SyntaxError"
            ELSE With(kinds, LAMBDA k :
                      With({i \in 1..Len(k) : k[i] # "ok"}, LAMBDA odd :
                           IF odd = {} THEN "ok"
                           ELSE k[CHOOSE i \in odd : \A j \in odd : i <= j])))

tCsv == <<"c", "s", "v">>
tDb == <<"d", "b">>
cC == <<"c">>
cW == <<"w">>
pA == <<"a">>
pB == <<"b">>
pCD == <<"c", ":", "d">>
pOut == <<"o", "u", "t">>
tXml == <<"x", "m", "l">>
pMissing == <<"z">>
pPipe == <<"a", "|", "b">>
pBackslash == <<"x", "\\", "t">>
pQuote == <<"o", "'", "k">>
pPlus == <<"a", "'", "+", "'", "b">>
pComma == <<"a", "'", ",", "'", "b">>
pAB == <<"a", "b">>
pRaw == <<"a", "'", " ", "r", "\"", "c", "\"", " ", "'", "b">>
pACB == <<"a", "c", "b">>

\* the datasource literal type:path
Lit(type, path) == type \o <<":">> \o path

\* what the adapters find at each path
Stored(path) ==
    CASE path = pA -> DataFrame(<<cA, cG>>, << <<0, 1>>, <<1, 0>> >>)
      [] path = pB -> DataFrame(<<cB, cV>>, << <<1, 1>>, <<0, 0>>, <<1, 0>> >>)
      [] path = pCD -> DataFrame(<<cC, cW>>, << <<1, 1>>, <<1, 0>> >>)
      [] path \in {pPipe, pBackslash, pQuote, pPlus, pComma, pAB, pACB} ->
            DataFrame(<<cB, cV>>, << <<1, 1>> >>)
      [] OTHER -> NoneVal

\* an exception the adapter factory or an adapter raised: its text is the
\* adapter's own
AdapterException(kind) == [t |-> "AdapterException", kind |-> kind]

\* core.py:164, Exception(f"Error loading data to '{source_type}:{data_destination}': {str(e)}")
LoadException(source_type, data_destination, e) ==
    [t |-> "Exception", text |-> "Error loading data to", source_type |-> source_type,
     data_destination |-> data_destination, cause |-> e]

\* extract, core.py:17-20: the relation the adapter for the source type reads
\* at the path; an exception of the adapter factory or of the adapter leaves
\* extract as it was raised
extract(data_source_type, data_source_path) ==
    IF data_source_type \notin {tCsv, tDb}
    THEN [err |-> "UnknownSourceType", ret |-> NoReturn,
          exc |-> AdapterException("UnknownSourceType")]
    ELSE IF IsNone(Stored(data_source_path))
         THEN [err |-> "AdapterError", ret |-> NoReturn,
               exc |-> AdapterException("AdapterError")]
    ELSE [err |-> "none", ret |-> Stored(data_source_path), exc |-> NoneVal]

\* load, core.py:159-164: the adapter for the type writes the relation at the
\* destination; a failure is wrapped with the type and the destination
load(d, source_type, data_destination) ==
    IF source_type \notin {tCsv, tDb}
    THEN [err |-> "LoadError", ret |-> NoReturn,
          exc |-> LoadException(source_type, data_destination,
                                AdapterException("UnknownSourceType"))]
    ELSE [err |-> "none", ret |-> NoneVal, exc |-> NoneVal]

---------------------------------------------------------------------------
(* Statements handed to the plan builder *)

\* a parsed SELECT: the values of the grammar symbols of yacc.py:42; `joins`
\* are the JOIN clauses in the order written
Select(distinct, select_columns, into, source, joins, where, group, order, limit_or_tail) ==
    [t |-> "select", distinct |-> distinct, select_columns |-> select_columns,
     into |-> into, table_source |-> source, joins |-> joins,
     join_clauses |-> ParseJoinClauses(joins), where |-> where, group |-> group,
     order |-> order, limit_or_tail |-> limit_or_tail]

\* the keywords a JOIN clause can open with
JoinKeywords ==
    {<<"JOIN">>, <<"INNER", "JOIN">>, <<"LEFT", "JOIN">>, <<"LEFT", "OUTER", "JOIN">>,
     <<"RIGHT", "JOIN">>, <<"RIGHT", "OUTER", "JOIN">>, <<"FULL", "JOIN">>,
     <<"FULL", "OUTER", "JOIN">>}

\* the join kind with FULL passed on under its own name
join_typeFullAsFull(words) ==
    CASE Head(words) \in {"JOIN", "INNER"} -> "inner"
      [] Head(words) = "LEFT" -> "left"
      [] Head(words) = "RIGHT" -> "right"
      [] OTHER -> "full"

\* yacc.py:188-209, join_type: the kind each keyword form is reduced to
join_type(words) ==
    CASE Head(words) \in {"JOIN", "INNER"} -> "inner"
      [] Head(words) = "LEFT" -> "left"
      [] Head(words) = "RIGHT" -> "right"
      [] OTHER -> "outer"

\* the kinds the parser hands to join_clause
JoinTypes == {join_type(words) : words \in JoinKeywords}

\* JOIN clauses: any kind, on the source b (ON a = b) or the source c:d
\* AS u (ON g = c); and inner joins on c:d AS u with the qualified conditions
\* ON t.g = u.c and ON u.c = t.g
ClauseSet ==
    {join_clause(k, table_source(Lit(tCsv, pB), NoneVal), on_conditions_base(cA, cB)) :
        k \in JoinTypes}
    \cup
    {join_clause(k, table_source(Lit(tDb, pCD), PyStr(<<"u">>)),
                 on_conditions_base(p_qualified_column_no_table(cG),
                                    p_qualified_column_no_table(cC))) :
        k \in JoinTypes}
    \cup
    {join_clause("inner", table_source(Lit(tDb, pCD), PyStr(<<"u">>)), on) :
        on \in {on_conditions_base(p_qualified_column_with_table(<<"t">>, cG),
                                   p_qualified_column_with_table(<<"u">>, cC)),
                on_conditions_base(p_qualified_column_with_table(<<"u">>, cC),
                                   p_qualified_column_with_table(<<"t">>, cG))}}

\* select lists written with an aggregation over the wildcard
WildcardSelectLists ==
    {PyList(<<PyTuple(f, cStar)>>) : f \in {FnSum, FnSize, FnMax, FnMin}}
    \cup
    {PyList(<<PyTuple(FnSize, cStar), PyTuple(FnSum, cStar)>>),
     PyList(<<PyStr(p_column(cG)), PyTuple(FnMax, cStar)>>),
     PyList(<<PyTuple(FnSum, cG), PyTuple(FnSize, cStar)>>)}

\* JOIN clauses on the source b whose condition combines equalities:
\* a = b AND g = v, a = b OR g = v, and a = b AND g = v OR g = b, which
\* the parser, shifting at every AND / OR, reduces from the right
CompositeClauses ==
    {join_clause("inner", table_source(Lit(tCsv, pB), NoneVal), on) :
        on \in {on_conditions_complex(op, on_conditions_base(cA, cB),
                                      on_conditions_base(cG, cV)) :
                    op \in {<<"A", "N", "D">>, <<"O", "R">>}}
                \cup
                {on_conditions_complex(<<"A", "N", "D">>, on_conditions_base(cA, cB),
                    on_conditions_complex(<<"O", "R">>, on_conditions_base(cG, cV),
                                          on_conditions_base(cG, cB)))}}

\* ORDER BY f(*) for the aggregation functions f, ascending and descending
WildcardOrders ==
    {OrderByNode(<<p_order_by_param(p_custom_aggregation_column(f, PyStr(cStar)), way)>>) :
        f \in {FnSum, FnSize, FnMax, FnMin}, way \in {"ASC", "DESC"}}

\* datasource literals with a type no adapter serves, a path where nothing
\* is stored, and paths that hold ':', '|', a backslash or a quote
OddSources ==
    {Lit(tXml, pA), Lit(tCsv, pMissing), Lit(tCsv, pA), Lit(tDb, pCD),
     Lit(tCsv, pPipe), Lit(tCsv, pBackslash), Lit(tCsv, pQuote), Lit(tCsv, pPlus),
     Lit(tCsv, pComma)}

\* statements: two select lists with every INTO, alias and list of JOIN
\* clauses; the wildcard aggregations with at most one JOIN clause; SELECT *
\* with the odd datasource literals in FROM, JOIN and INTO; the composite
\* JOIN conditions; the orderings by f(*); and SELECT * from a path that
\* closes its literal and opens a raw and a plain one, with and without INTO
StatementSet ==
    {Select(FALSE, cr.COLUMNS, into, table_source(Lit(tCsv, pA), alias), joins,
            NoneVal, NoneVal, NoneVal, cr.LIMIT_OR_TAIL) :
        cr \in {Criteria(AllColumns, FALSE, NoneVal, NoneVal, NoneVal, NoneVal),
                Criteria(PyList(<<PyStr(p_column(<<"[", "g", "]">>)),
                                  PyStr(p_column(cA))>>), FALSE, NoneVal, NoneVal,
                         NoneVal, LimitOrTail("limit", PyInt(1)))},
        into \in {NoneVal, PyStr(Lit(tCsv, pOut)), PyStr(Lit(tCsv, <<>>))},
        alias \in {NoneVal, PyStr(<<"t">>), PyStr(<<"u">>)},
        joins \in SeqsUpTo(ClauseSet, MaxJoins)}
    \cup
    {Select(FALSE, cols, NoneVal, table_source(Lit(tCsv, pA), NoneVal), joins,
            NoneVal, NoneVal, NoneVal, NoneVal) :
        cols \in WildcardSelectLists, joins \in SeqsUpTo(ClauseSet, 1)}
    \cup
    {Select(FALSE, AllColumns, into, table_source(source, NoneVal), joins,
            NoneVal, NoneVal, NoneVal, NoneVal) :
        source \in OddSources, into \in {NoneVal} \cup {PyStr(d) : d \in OddSources},
        joins \in {<<>>} \cup
                  {<<join_clause("inner", table_source(d, NoneVal),
                                 on_conditions_base(cA, cB))>> : d \in OddSources}}
    \cup
    {Select(FALSE, AllColumns, NoneVal, table_source(Lit(tCsv, pA), NoneVal), joins,
            NoneVal, NoneVal, NoneVal, NoneVal) :
        joins \in {<<c>> : c \in CompositeClauses} \cup
                  {<<c, join_clause("left", table_source(Lit(tDb, pCD), NoneVal),
                                    on_conditions_base(cG, cC))>> :
                      c \in CompositeClauses}}
    \cup
    {Select(FALSE, PyList(<<PyTuple(FnSize, cStar)>>), NoneVal,
            table_source(Lit(tCsv, pA), NoneVal), <<>>, NoneVal, NoneVal, order,
            NoneVal) : order \in WildcardOrders}
    \cup
    {Select(FALSE, AllColumns, into, table_source(Lit(tCsv, pRaw), NoneVal), <<>>,
            NoneVal, NoneVal, NoneVal, NoneVal) :
        into \in {NoneVal, PyStr(Lit(tCsv, pRaw))}}

---------------------------------------------------------------------------
(* The parser: the token streams it is handed, the grammar of yacc.py and  *)
(* the actions that reduce its productions                                 *)

\* a token as the parser sees it: type, value, line and position in the
\* text.  The value is a str, an int or a float
Token(type, value, lineno, lexpos) ==
    [t |-> "LexToken", type |-> type, value |-> value, lineno |-> lineno,
     lexpos |-> lexpos]

TokenStream(ts) == [t |-> "tokens", items |-> ts]

\* the characters of a str put in a row
Text(s) ==
    LET row[i \in 0..Len(s)] == IF i = 0 THEN "" ELSE row[i - 1] \o s[i]
    IN row[Len(s)]

\* the decimal digits of a natural number
RECURSIVE DecimalText(_)
DecimalText(n) ==
    IF n < 10 THEN <<Digits[n + 1]>>
    ELSE Append(DecimalText(n \div 10), Digits[(n % 10) + 1])

\* str(v) of a str, an int, a float held in tenths, or None
Str(v) ==
    CASE v.t = "str" -> v.s
      [] v.t = "int" -> IF v.v < 0 THEN <<"-">> \o DecimalText(0 - v.v)
                        ELSE DecimalText(v.v)
      [] v.t = "float" ->
            (IF v.tenths < 0 THEN <<"-">> ELSE <<>>) \o
            LET a == IF v.tenths < 0 THEN 0 - v.tenths ELSE v.tenths
            IN DecimalText(a \div 10) \o <<".">> \o DecimalText(a % 10)
      [] OTHER -> <<"N", "o", "n", "e">>

\* the tuple (a, b) of p_assign
PyPair(a, b) == [t |-> "tuple", items |-> <<a, b>>]

\* p_select, yacc.py:41-131, on the values of the symbols of its production
SelectOf(p) ==
    [t |-> "select", distinct |-> p[2], select_columns |-> p[3], into |-> p[4],
     table_source |-> p[6], joins |-> IF IsNone(p[7]) THEN <<>> ELSE p[7].items,
     join_clauses |-> p[7], where |-> p[8], group |-> p[9], order |-> p[10],
     limit_or_tail |-> p[11]]

\* str.replace("\\", "\\\\"): every backslash written twice
DoubleBackslashes(text) ==
    LET out[i \in 0..Len(text)] ==
            IF i = 0 THEN <<>>
            ELSE IF text[i] = "\\" THEN out[i - 1] \o <<"\\", "\\">>
            ELSE Append(out[i - 1], text[i])
    IN out[Len(text)]

\* the statements of the code p_insert generates, yacc.py:274-278: the rows,
\* the destination pasted between single quotes, and the column names
InsertStmt(values, destination, columns) ==
    [op |-> "insert", values |-> values, destination |-> destination,
     columns |-> columns]

\* p_insert, yacc.py:267-280
InsertOf(p) ==
    [t |-> "insert", datasource |-> p[3], columns |-> p[4], values |-> p[6]]

\* the value of a statement symbol: the code generated, with the statement
\* it was generated from
Code(s, code) == [t |-> "code", stmt |-> s, code |-> code]

\* ParserError(message, token, line, position)
ParserError(token, line, position) ==
    [err |-> "SyntaxError",
     args |-> [t |-> "ParserError", token |-> token, line |-> line,
               column |-> position]]

\* outcome of an action: the value it gives its symbol, or the exception it
\* raises with the arguments of a ParserError
Done(v) == [err |-> "none", value |-> v, args |-> NoneVal]
Raised(kind, args) == [err |-> kind, value |-> NoneVal, args |-> args]

\* the actions of the grammar by name: fn reduces a production whose right
\* side is rhs and whose symbols have the values p[1], p[2], ...
Reduce(fn, rhs, p) ==
    CASE fn = "p_start" -> Done(p[1])
      [] fn = "p_empty" -> Done(NoneVal)
      [] fn = "p_select" ->
            LET r == p_select(SelectOf(p))
            IN IF r.err # "none" THEN Raised(r.err, NoneVal)
               ELSE Done(Code(SelectOf(p), r.code))
      [] fn = "p_table_source_with_alias" -> Done(table_source(p[1].s, p[3]))
      [] fn = "p_table_source_no_alias" -> Done(table_source(p[1].s, NoneVal))
      [] fn = "p_join_clauses" ->
            IF IsNone(p[1]) THEN Raised("AttributeError", NoneVal)
            ELSE Done(p_join_clauses(p[1], p[2]))
      [] fn = "p_join_clauses_single" -> Done(p_join_clauses_single(p[1]))
      [] fn = "p_join_clauses_empty" -> Done(p_join_clauses_empty)
      [] fn = "p_join_clause" -> Done(join_clause(p[1], p[2], p[3]))
      [] fn \in {"p_join_type_inner", "p_join_type_left", "p_join_type_right",
                 "p_join_type_full"} -> Done(join_type(rhs))
      [] fn = "p_on_statement" -> Done(p[2])
      [] fn = "p_on_conditions_complex" ->
            Done(on_conditions_complex(p[2].s, p[1], p[3]))
      [] fn = "p_on_conditions_base" -> Done(on_conditions_base(p[1].s, p[3].s))
      [] fn = "p_qualified_column_with_table" ->
            Done(PyStr(p_qualified_column_with_table(Str(p[1]), Str(p[3]))))
      [] fn = "p_qualified_column_no_table" ->
            Done(PyStr(p_qualified_column_no_table(p[1].s)))
      [] fn = "p_insert" ->
            Done(Code(InsertOf(p),
                      <<InsertStmt(p[6], DoubleBackslashes(Str(p[3])), p[4])>>))
      [] fn \in {"p_update", "p_delete"} -> Done(NoneVal)
      [] fn = "p_logical" -> Done(p[1])
      [] fn = "p_where" -> Done(p[2])
      [] fn = "p_where_empty" -> Done(NoneVal)
      [] fn = "p_cond_parens" -> Done(p[2])
      [] fn = "p_cond_3" -> Done(Cond(Text(Str(p[2])), p[1], p[3]))
      [] fn = "p_conditions_not" -> Done(CondNot(Text(Str(p[1])), p[2]))
      [] fn = "p_exp" -> Done(p[1])
      [] fn = "p_NUMBER" -> Done(p[1])
      [] fn = "p_distinct" -> Done(TRUE)
      [] fn = "p_distinct_empty" -> Done(FALSE)
      [] fn = "p_column" -> Done(PyStr(p_column(Str(p[1]))))
      [] fn \in {"p_columns", "p_icolumns", "p_values", "p_insert_values",
                 "p_order_by_parameters"} -> Done(PyList(p[1].items \o p[3].items))
      [] fn \in {"p_columns_base", "p_icolumns_base", "p_values_end",
                 "p_insert_values_end", "p_order_by_parameters_base",
                 "p_assigns_end"} -> Done(PyList(<<p[1]>>))
      [] fn = "p_aggregation_function" ->
            LET r == p_aggregation_function(p[1].s, p[3].s)
            IN IF r.err # "none"
               THEN Raised(r.err, ParserError(PyStr(<<"*">>), 0 - 1, 0 - 1).args)
               ELSE Done(r.value)
      [] fn = "p_select_columns_all" -> Done(AllColumns)
      [] fn = "p_select_columns" -> Done(p[1])
      [] fn = "p_into_statement" -> Done(p[2])
      [] fn = "p_into_statement_empty" -> Done(NoneVal)
      [] fn = "p_group" -> Done(p[3])
      [] fn = "p_group_empty" -> Done(NoneVal)
      [] fn = "p_simple_column_name" -> Done(ColumnNameNode(Str(p[1])))
      [] fn = "p_bracketed_column_name" -> Done(ColumnNameNode(Inner(Str(p[1]))))
      [] fn = "p_column_index" ->
            LET index == ParseInt(Inner(Str(p[1])))
            IN IF index.ok THEN Done(ColumnIndexNode(index.v))
               ELSE Raised("ValueError", NoneVal)
      [] fn = "p_custom_column" -> Done(p[1])
      [] fn = "p_custom_aggregation_column" ->
            Done(p_custom_aggregation_column(Str(p[1]), p[3]))
      [] fn = "p_order_by_param" -> Done(p_order_by_param(p[1], p[2]))
      [] fn = "p_order" -> Done(OrderByNode(p[3].items))
      [] fn = "p_order_empty" -> Done(NoneVal)
      [] fn = "p_way_asc" -> Done("ASC")
      [] fn = "p_way_desc" -> Done("DESC")
      [] fn = "p_limit_or_tail" -> Done(LimitOrTail(Text(Str(p[1])), p[2]))
      [] fn = "p_limit_or_tail_empty" -> Done(NoneVal)
      [] fn = "p_value" -> Done(p[1])
      [] fn = "p_single_values" -> Done(p[2])
      [] fn = "p_icolumn" -> Done(p[2])
      [] fn = "p_icolumn_empty" -> Done(NoneVal)
      [] fn = "p_assign" -> Done(PyPair(p[1], p[3]))
      [] fn = "p_assigns" ->
            IF IsNone(p[3]) THEN Raised("TypeError", NoneVal) ELSE Done(NoneVal)

\* the productions of the grammar, in the order of the file: the symbol
\* defined, the symbols of its right side, and the action that reduces it
Productions ==
    << [lhs |-> "start", rhs |-> <<"select">>, fn |-> "p_start"],
       [lhs |-> "start", rhs |-> <<"insert">>, fn |-> "p_start"],
       [lhs |-> "start", rhs |-> <<"update">>, fn |-> "p_start"],
       [lhs |-> "start", rhs |-> <<"delete">>, fn |-> "p_start"],
       [lhs |-> "empty", rhs |-> <<>>, fn |-> "p_empty"],
       [lhs |-> "select", rhs |-> <<"SELECT", "distinct", "select_columns", "into_statement", "FROM", "table_source", "join_clauses", "where", "group", "order", "limit_or_tail", "SIMICOLON">>, fn |-> "p_select"],
       [lhs |-> "table_source", rhs |-> <<"DATASOURCE", "AS", "SIMPLE_COLNAME">>, fn |-> "p_table_source_with_alias"],
       [lhs |-> "table_source", rhs |-> <<"DATASOURCE">>, fn |-> "p_table_source_no_alias"],
       [lhs |-> "join_clauses", rhs |-> <<"join_clauses", "join_clause">>, fn |-> "p_join_clauses"],
       [lhs |-> "join_clauses", rhs |-> <<"join_clause">>, fn |-> "p_join_clauses_single"],
       [lhs |-> "join_clauses", rhs |-> <<"empty">>, fn |-> "p_join_clauses_empty"],
       [lhs |-> "join_clause", rhs |-> <<"join_type", "table_source", "on_statement">>, fn |-> "p_join_clause"],
       [lhs |-> "join_type", rhs |-> <<"JOIN">>, fn |-> "p_join_type_inner"],
       [lhs |-> "join_type", rhs |-> <<"INNER", "JOIN">>, fn |-> "p_join_type_inner"],
       [lhs |-> "join_type", rhs |-> <<"LEFT", "JOIN">>, fn |-> "p_join_type_left"],
       [lhs |-> "join_type", rhs |-> <<"LEFT", "OUTER", "JOIN">>, fn |-> "p_join_type_left"],
       [lhs |-> "join_type", rhs |-> <<"RIGHT", "JOIN">>, fn |-> "p_join_type_right"],
       [lhs |-> "join_type", rhs |-> <<"RIGHT", "OUTER", "JOIN">>, fn |-> "p_join_type_right"],
       [lhs |-> "join_type", rhs |-> <<"FULL", "JOIN">>, fn |-> "p_join_type_full"],
       [lhs |-> "join_type", rhs |-> <<"FULL", "OUTER", "JOIN">>, fn |-> "p_join_type_full"],
       [lhs |-> "on_statement", rhs |-> <<"ON", "on_conditions">>, fn |-> "p_on_statement"],
       [lhs |-> "on_conditions", rhs |-> <<"on_conditions", "AND", "on_conditions">>, fn |-> "p_on_conditions_complex"],
       [lhs |-> "on_conditions", rhs |-> <<"on_conditions", "OR", "on_conditions">>, fn |-> "p_on_conditions_complex"],
       [lhs |-> "on_conditions", rhs |-> <<"qualified_column", "EQUAL", "qualified_column">>, fn |-> "p_on_conditions_base"],
       [lhs |-> "qualified_column", rhs |-> <<"SIMPLE_COLNAME", "DOT", "SIMPLE_COLNAME">>, fn |-> "p_qualified_column_with_table"],
       [lhs |-> "qualified_column", rhs |-> <<"SIMPLE_COLNAME", "DOT", "BRACKETED_COLNAME">>, fn |-> "p_qualified_column_with_table"],
       [lhs |-> "qualified_column", rhs |-> <<"column">>, fn |-> "p_qualified_column_no_table"],
       [lhs |-> "insert", rhs |-> <<"INSERT", "INTO", "DATASOURCE", "icolumn", "VALUES", "insert_values", "SIMICOLON">>, fn |-> "p_insert"],
       [lhs |-> "update", rhs |-> <<"UPDATE", "DATASOURCE", "SET", "assigns", "where", "SIMICOLON">>, fn |-> "p_update"],
       [lhs |-> "delete", rhs |-> <<"DELETE", "FROM", "DATASOURCE", "where">>, fn |-> "p_delete"],
       [lhs |-> "logical", rhs |-> <<"EQUAL">>, fn |-> "p_logical"],
       [lhs |-> "logical", rhs |-> <<"NOTEQUAL">>, fn |-> "p_logical"],
       [lhs |-> "logical", rhs |-> <<"BIGGER_EQUAL">>, fn |-> "p_logical"],
       [lhs |-> "logical", rhs |-> <<"BIGGER">>, fn |-> "p_logical"],
       [lhs |-> "logical", rhs |-> <<"SMALLER_EQUAL">>, fn |-> "p_logical"],
       [lhs |-> "logical", rhs |-> <<"SMALLER">>, fn |-> "p_logical"],
       [lhs |-> "where", rhs |-> <<"WHERE", "conditions">>, fn |-> "p_where"],
       [lhs |-> "where", rhs |-> <<"empty">>, fn |-> "p_where_empty"],
       [lhs |-> "conditions", rhs |-> <<"LPAREN", "conditions", "RPAREN">>, fn |-> "p_cond_parens"],
       [lhs |-> "conditions", rhs |-> <<"conditions", "AND", "conditions">>, fn |-> "p_cond_3"],
       [lhs |-> "conditions", rhs |-> <<"conditions", "OR", "conditions">>, fn |-> "p_cond_3"],
       [lhs |-> "conditions", rhs |-> <<"exp", "LIKE", "STRING">>, fn |-> "p_cond_3"],
       [lhs |-> "conditions", rhs |-> <<"exp", "logical", "exp">>, fn |-> "p_cond_3"],
       [lhs |-> "conditions", rhs |-> <<"NOT", "conditions">>, fn |-> "p_conditions_not"],
       [lhs |-> "exp", rhs |-> <<"column">>, fn |-> "p_exp"],
       [lhs |-> "exp", rhs |-> <<"STRING">>, fn |-> "p_exp"],
       [lhs |-> "exp", rhs |-> <<"NUMBER">>, fn |-> "p_exp"],
       [lhs |-> "NUMBER", rhs |-> <<"NEGATIVE_INTNUMBER">>, fn |-> "p_NUMBER"],
       [lhs |-> "NUMBER", rhs |-> <<"POSITIVE_INTNUMBER">>, fn |-> "p_NUMBER"],
       [lhs |-> "NUMBER", rhs |-> <<"FLOATNUMBER">>, fn |-> "p_NUMBER"],
       [lhs |-> "distinct", rhs |-> <<"DISTINCT">>, fn |-> "p_distinct"],
       [lhs |-> "distinct", rhs |-> <<"empty">>, fn |-> "p_distinct_empty"],
       [lhs |-> "column", rhs |-> <<"COLNUMBER">>, fn |-> "p_column"],
       [lhs |-> "column", rhs |-> <<"BRACKETED_COLNAME">>, fn |-> "p_column"],
       [lhs |-> "column", rhs |-> <<"SIMPLE_COLNAME">>, fn |-> "p_column"],
       [lhs |-> "columns", rhs |-> <<"columns", "COMMA", "columns">>, fn |-> "p_columns"],
       [lhs |-> "columns", rhs |-> <<"column">>, fn |-> "p_columns_base"],
       [lhs |-> "columns", rhs |-> <<"aggregation_function">>, fn |-> "p_columns_base"],
       [lhs |-> "aggregation_function", rhs |-> <<"AGGREGATION_FUNCTION", "LPAREN", "column", "RPAREN">>, fn |-> "p_aggregation_function"],
       [lhs |-> "aggregation_function", rhs |-> <<"AGGREGATION_FUNCTION", "LPAREN", "TIMES", "RPAREN">>, fn |-> "p_aggregation_function"],
       [lhs |-> "select_columns", rhs |-> <<"TIMES">>, fn |-> "p_select_columns_all"],
       [lhs |-> "select_columns", rhs |-> <<"columns">>, fn |-> "p_select_columns"],
       [lhs |-> "into_statement", rhs |-> <<"INTO", "DATASOURCE">>, fn |-> "p_into_statement"],
       [lhs |-> "into_statement", rhs |-> <<"empty">>, fn |-> "p_into_statement_empty"],
       [lhs |-> "group", rhs |-> <<"GROUP", "BY", "icolumns">>, fn |-> "p_group"],
       [lhs |-> "group", rhs |-> <<"empty">>, fn |-> "p_group_empty"],
       [lhs |-> "simple_column_name", rhs |-> <<"SIMPLE_COLNAME">>, fn |-> "p_simple_column_name"],
       [lhs |-> "bracketed_column_name", rhs |-> <<"BRACKETED_COLNAME">>, fn |-> "p_bracketed_column_name"],
       [lhs |-> "column_index", rhs |-> <<"COLNUMBER">>, fn |-> "p_column_index"],
       [lhs |-> "custom_column", rhs |-> <<"bracketed_column_name">>, fn |-> "p_custom_column"],
       [lhs |-> "custom_column", rhs |-> <<"simple_column_name">>, fn |-> "p_custom_column"],
       [lhs |-> "custom_column", rhs |-> <<"column_index">>, fn |-> "p_custom_column"],
       [lhs |-> "custom_aggregation_column", rhs |-> <<"AGGREGATION_FUNCTION", "LPAREN", "custom_column", "RPAREN">>, fn |-> "p_custom_aggregation_column"],
       [lhs |-> "custom_aggregation_column", rhs |-> <<"AGGREGATION_FUNCTION", "LPAREN", "TIMES", "RPAREN">>, fn |-> "p_custom_aggregation_column"],
       [lhs |-> "order_by_param", rhs |-> <<"custom_aggregation_column", "way">>, fn |-> "p_order_by_param"],
       [lhs |-> "order_by_param", rhs |-> <<"custom_column", "way">>, fn |-> "p_order_by_param"],
       [lhs |-> "order_by_parameters", rhs |-> <<"order_by_param">>, fn |-> "p_order_by_parameters_base"],
       [lhs |-> "order_by_parameters", rhs |-> <<"order_by_parameters", "COMMA", "order_by_parameters">>, fn |-> "p_order_by_parameters"],
       [lhs |-> "order", rhs |-> <<"ORDER", "BY", "order_by_parameters">>, fn |-> "p_order"],
       [lhs |-> "order", rhs |-> <<"empty">>, fn |-> "p_order_empty"],
       [lhs |-> "way", rhs |-> <<"ASC">>, fn |-> "p_way_asc"],
       [lhs |-> "way", rhs |-> <<"empty">>, fn |-> "p_way_asc"],
       [lhs |-> "way", rhs |-> <<"DESC">>, fn |-> "p_way_desc"],
       [lhs |-> "limit_or_tail", rhs |-> <<"LIMIT", "POSITIVE_INTNUMBER">>, fn |-> "p_limit_or_tail"],
       [lhs |-> "limit_or_tail", rhs |-> <<"TAIL", "POSITIVE_INTNUMBER">>, fn |-> "p_limit_or_tail"],
       [lhs |-> "limit_or_tail", rhs |-> <<"empty">>, fn |-> "p_limit_or_tail_empty"],
       [lhs |-> "value", rhs |-> <<"STRING">>, fn |-> "p_value"],
       [lhs |-> "value", rhs |-> <<"NUMBER">>, fn |-> "p_value"],
       [lhs |-> "values", rhs |-> <<"values", "COMMA", "values">>, fn |-> "p_values"],
       [lhs |-> "values", rhs |-> <<"value">>, fn |-> "p_values_end"],
       [lhs |-> "single_values", rhs |-> <<"LPAREN", "values", "RPAREN">>, fn |-> "p_single_values"],
       [lhs |-> "insert_values", rhs |-> <<"insert_values", "COMMA", "insert_values">>, fn |-> "p_insert_values"],
       [lhs |-> "insert_values", rhs |-> <<"single_values">>, fn |-> "p_insert_values_end"],
       [lhs |-> "icolumn", rhs |-> <<"LPAREN", "icolumns", "RPAREN">>, fn |-> "p_icolumn"],
       [lhs |-> "icolumn", rhs |-> <<"empty">>, fn |-> "p_icolumn_empty"],
       [lhs |-> "icolumns", rhs |-> <<"icolumns", "COMMA", "icolumns">>, fn |-> "p_icolumns"],
       [lhs |-> "icolumns", rhs |-> <<"column">>, fn |-> "p_icolumns_base"],
       [lhs |-> "assign", rhs |-> <<"column", "EQUAL", "value">>, fn |-> "p_assign"],
       [lhs |-> "assigns", rhs |-> <<"assign", "COMMA", "assigns">>, fn |-> "p_assigns"],
       [lhs |-> "assigns", rhs |-> <<"assign">>, fn |-> "p_assigns_end"] >>

\* the LALR(1) parsing table the parser generator builds from the
\* productions: for each state (numbered from 0, state s at index s + 1;
\* the comment gives the positions reached in the productions) the tokens
\* shifted with the state they lead to, the productions reduced (by their
\* number in Productions) with the tokens on which they are reduced, and
\* the state entered after a reduction to each symbol.  Where a token could
\* be shifted or end a production (the grammar declares no precedence) it
\* is shifted.  Production 0 means the statement is complete.
ParsingTable ==
    \* 0: S' : . start
    << [shift |-> {<<"DELETE", 1>>, <<"INSERT", 2>>, <<"SELECT", 3>>, <<"UPDATE", 4>>},
        reduce |-> {}, goto |-> {<<"delete", 5>>, <<"insert", 6>>, <<"select", 7>>,
        <<"start", 8>>, <<"update", 9>>}],
    \* 1: delete : DELETE . FROM DATASOURCE where
       [shift |-> {<<"FROM", 10>>}, reduce |-> {}, goto |-> {}],
    \* 2: insert : INSERT . INTO DATASOURCE icolumn VALUES insert_values SIMICOLON
       [shift |-> {<<"INTO", 11>>}, reduce |-> {}, goto |-> {}],
    \* 3: select : SELECT . distinct select_columns into_statement FROM table_source join_clauses where group order limit_or_tail SIMICOLON
       [shift |-> {<<"DISTINCT", 12>>}, reduce |-> {<<5, {"AGGREGATION_FUNCTION",
        "BRACKETED_COLNAME", "COLNUMBER", "SIMPLE_COLNAME", "TIMES"}>>},
        goto |-> {<<"distinct", 13>>, <<"empty", 14>>}],
    \* 4: update : UPDATE . DATASOURCE SET assigns where SIMICOLON
       [shift |-> {<<"DATASOURCE", 15>>}, reduce |-> {}, goto |-> {}],
    \* 5: start : delete .
       [shift |-> {}, reduce |-> {<<4, {"$end"}>>}, goto |-> {}],
    \* 6: start : insert .
       [shift |-> {}, reduce |-> {<<2, {"$end"}>>}, goto |-> {}],
    \* 7: start : select .
       [shift |-> {}, reduce |-> {<<1, {"$end"}>>}, goto |-> {}],
    \* 8: S' : start .
       [shift |-> {}, reduce |-> {<<0, {"$end"}>>}, goto |-> {}],
    \* 9: start : update .
       [shift |-> {}, reduce |-> {<<3, {"$end"}>>}, goto |-> {}],
    \* 10: delete : DELETE FROM . DATASOURCE where
       [shift |-> {<<"DATASOURCE", 16>>}, reduce |-> {}, goto |-> {}],
    \* 11: insert : INSERT INTO . DATASOURCE icolumn VALUES insert_values SIMICOLON
       [shift |-> {<<"DATASOURCE", 17>>}, reduce |-> {}, goto |-> {}],
    \* 12: distinct : DISTINCT .
       [shift |-> {}, reduce |-> {<<51, {"AGGREGATION_FUNCTION", "BRACKETED_COLNAME",
        "COLNUMBER", "SIMPLE_COLNAME", "TIMES"}>>}, goto |-> {}],
    \* 13: select : SELECT distinct . select_columns into_statement FROM table_source join_clauses where group order limit_or_tail SIMICOLON
       [shift |-> {<<"AGGREGATION_FUNCTION", 18>>, <<"BRACKETED_COLNAME", 19>>,
        <<"COLNUMBER", 20>>, <<"SIMPLE_COLNAME", 21>>, <<"TIMES", 22>>}, reduce |-> {},
        goto |-> {<<"aggregation_function", 23>>, <<"column", 24>>, <<"columns", 25>>,
        <<"select_columns", 26>>}],
    \* 14: distinct : empty .
       [shift |-> {}, reduce |-> {<<52, {"AGGREGATION_FUNCTION", "BRACKETED_COLNAME",
        "COLNUMBER", "SIMPLE_COLNAME", "TIMES"}>>}, goto |-> {}],
    \* 15: update : UPDATE DATASOURCE . SET assigns where SIMICOLON
       [shift |-> {<<"SET", 27>>}, reduce |-> {}, goto |-> {}],
    \* 16: delete : DELETE FROM DATASOURCE . where
       [shift |-> {<<"WHERE", 28>>}, reduce |-> {<<5, {"$end"}>>}, goto |-> {<<"empty", 29>>,
        <<"where", 30>>}],
    \* 17: insert : INSERT INTO DATASOURCE . icolumn VALUES insert_values SIMICOLON
       [shift |-> {<<"LPAREN", 31>>}, reduce |-> {<<5, {"VALUES"}>>}, goto |-> {<<"empty",
        32>>, <<"icolumn", 33>>}],
    \* 18: aggregation_function : AGGREGATION_FUNCTION . LPAREN column RPAREN
    \* 18: aggregation_function : AGGREGATION_FUNCTION . LPAREN TIMES RPAREN
       [shift |-> {<<"LPAREN", 34>>}, reduce |-> {}, goto |-> {}],
    \* 19: column : BRACKETED_COLNAME .
       [shift |-> {}, reduce |-> {<<54, {"$end", "AND", "BIGGER", "BIGGER_EQUAL", "COMMA",
        "EQUAL", "FROM", "FULL", "GROUP", "INNER", "INTO", "JOIN", "LEFT", "LIKE", "LIMIT",
        "NOTEQUAL", "OR", "ORDER", "RIGHT", "RPAREN", "SIMICOLON", "SMALLER",
        "SMALLER_EQUAL", "TAIL", "WHERE"}>>}, goto |-> {}],
    \* 20: column : COLNUMBER .
       [shift |-> {}, reduce |-> {<<53, {"$end", "AND", "BIGGER", "BIGGER_EQUAL", "COMMA",
        "EQUAL", "FROM", "FULL", "GROUP", "INNER", "INTO", "JOIN", "LEFT", "LIKE", "LIMIT",
        "NOTEQUAL", "OR", "ORDER", "RIGHT", "RPAREN", "SIMICOLON", "SMALLER",
        "SMALLER_EQUAL", "TAIL", "WHERE"}>>}, goto |-> {}],
    \* 21: column : SIMPLE_COLNAME .
       [shift |-> {}, reduce |-> {<<55, {"$end", "AND", "BIGGER", "BIGGER_EQUAL", "COMMA",
        "EQUAL", "FROM", "GROUP", "INTO", "LIKE", "LIMIT", "NOTEQUAL", "OR", "ORDER",
        "RPAREN", "SIMICOLON", "SMALLER", "SMALLER_EQUAL", "TAIL"}>>}, goto |-> {}],
    \* 22: select_columns : TIMES .
       [shift |-> {}, reduce |-> {<<61, {"FROM", "INTO"}>>}, goto |-> {}],
    \* 23: columns : aggregation_function .
       [shift |-> {}, reduce |-> {<<58, {"COMMA", "FROM", "INTO"}>>}, goto |-> {}],
    \* 24: columns : column .
       [shift |-> {}, reduce |-> {<<57, {"COMMA", "FROM", "INTO"}>>}, goto |-> {}],
    \* 25: columns : columns . COMMA columns
    \* 25: select_columns : columns .
       [shift |-> {<<"COMMA", 35>>}, reduce |-> {<<62, {"FROM", "INTO"}>>}, goto |-> {}],
    \* 26: select : SELECT distinct select_columns . into_statement FROM table_source join_clauses where group order limit_or_tail SIMICOLON
       [shift |-> {<<"INTO", 36>>}, reduce |-> {<<5, {"FROM"}>>}, goto |-> {<<"empty", 37>>,
        <<"into_statement", 38>>}],
    \* 27: update : UPDATE DATASOURCE SET . assigns where SIMICOLON
       [shift |-> {<<"BRACKETED_COLNAME", 19>>, <<"COLNUMBER", 20>>, <<"SIMPLE_COLNAME",
        21>>}, reduce |-> {}, goto |-> {<<"assign", 39>>, <<"assigns", 40>>, <<"column",
        41>>}],
    \* 28: where : WHERE . conditions
       [shift |-> {<<"BRACKETED_COLNAME", 19>>, <<"COLNUMBER", 20>>, <<"FLOATNUMBER", 42>>,
        <<"LPAREN", 43>>, <<"NEGATIVE_INTNUMBER", 44>>, <<"NOT", 45>>,
        <<"POSITIVE_INTNUMBER", 47>>, <<"SIMPLE_COLNAME", 21>>, <<"STRING", 48>>},
        reduce |-> {}, goto |-> {<<"NUMBER", 46>>, <<"column", 49>>, <<"conditions", 50>>,
        <<"exp", 51>>}],
    \* 29: where : empty .
       [shift |-> {}, reduce |-> {<<38, {"$end", "GROUP", "LIMIT", "ORDER", "SIMICOLON",
        "TAIL"}>>}, goto |-> {}],
    \* 30: delete : DELETE FROM DATASOURCE where .
       [shift |-> {}, reduce |-> {<<30, {"$end"}>>}, goto |-> {}],
    \* 31: icolumn : LPAREN . icolumns RPAREN
       [shift |-> {<<"BRACKETED_COLNAME", 19>>, <<"COLNUMBER", 20>>, <<"SIMPLE_COLNAME",
        21>>}, reduce |-> {}, goto |-> {<<"column", 52>>, <<"icolumns", 53>>}],
    \* 32: icolumn : empty .
       [shift |-> {}, reduce |-> {<<95, {"VALUES"}>>}, goto |-> {}],
    \* 33: insert : INSERT INTO DATASOURCE icolumn . VALUES insert_values SIMICOLON
       [shift |-> {<<"VALUES", 54>>}, reduce |-> {}, goto |-> {}],
    \* 34: aggregation_function : AGGREGATION_FUNCTION LPAREN . column RPAREN
    \* 34: aggregation_function : AGGREGATION_FUNCTION LPAREN . TIMES RPAREN
       [shift |-> {<<"BRACKETED_COLNAME", 19>>, <<"COLNUMBER", 20>>, <<"SIMPLE_COLNAME",
        21>>, <<"TIMES", 55>>}, reduce |-> {}, goto |-> {<<"column", 56>>}],
    \* 35: columns : columns COMMA . columns
       [shift |-> {<<"AGGREGATION_FUNCTION", 18>>, <<"BRACKETED_COLNAME", 19>>,
        <<"COLNUMBER", 20>>, <<"SIMPLE_COLNAME", 21>>}, reduce |-> {},
        goto |-> {<<"aggregation_function", 23>>, <<"column", 24>>, <<"columns", 57>>}],
    \* 36: into_statement : INTO . DATASOURCE
       [shift |-> {<<"DATASOURCE", 58>>}, reduce |-> {}, goto |-> {}],
    \* 37: into_statement : empty .
       [shift |-> {}, reduce |-> {<<64, {"FROM"}>>}, goto |-> {}],
    \* 38: select : SELECT distinct select_columns into_statement . FROM table_source join_clauses where group order limit_or_tail SIMICOLON
       [shift |-> {<<"FROM", 59>>}, reduce |-> {}, goto |-> {}],
    \* 39: assigns : assign . COMMA assigns
    \* 39: assigns : assign .
       [shift |-> {<<"COMMA", 60>>}, reduce |-> {<<100, {"SIMICOLON", "WHERE"}>>},
        goto |-> {}],
    \* 40: update : UPDATE DATASOURCE SET assigns . where SIMICOLON
       [shift |-> {<<"WHERE", 28>>}, reduce |-> {<<5, {"SIMICOLON"}>>}, goto |-> {<<"empty",
        29>>, <<"where", 61>>}],
    \* 41: assign : column . EQUAL value
       [shift |-> {<<"EQUAL", 62>>}, reduce |-> {}, goto |-> {}],
    \* 42: NUMBER : FLOATNUMBER .
       [shift |-> {}, reduce |-> {<<50, {"$end", "AND", "BIGGER", "BIGGER_EQUAL", "COMMA",
        "EQUAL", "GROUP", "LIKE", "LIMIT", "NOTEQUAL", "OR", "ORDER", "RPAREN", "SIMICOLON",
        "SMALLER", "SMALLER_EQUAL", "TAIL", "WHERE"}>>}, goto |-> {}],
    \* 43: conditions : LPAREN . conditions RPAREN
       [shift |-> {<<"BRACKETED_COLNAME", 19>>, <<"COLNUMBER", 20>>, <<"FLOATNUMBER", 42>>,
        <<"LPAREN", 43>>, <<"NEGATIVE_INTNUMBER", 44>>, <<"NOT", 45>>,
        <<"POSITIVE_INTNUMBER", 47>>, <<"SIMPLE_COLNAME", 21>>, <<"STRING", 48>>},
        reduce |-> {}, goto |-> {<<"NUMBER", 46>>, <<"column", 49>>, <<"conditions", 63>>,
        <<"exp", 51>>}],
    \* 44: NUMBER : NEGATIVE_INTNUMBER .
       [shift |-> {}, reduce |-> {<<48, {"$end", "AND", "BIGGER", "BIGGER_EQUAL", "COMMA",
        "EQUAL", "GROUP", "LIKE", "LIMIT", "NOTEQUAL", "OR", "ORDER", "RPAREN", "SIMICOLON",
        "SMALLER", "SMALLER_EQUAL", "TAIL", "WHERE"}>>}, goto |-> {}],
    \* 45: conditions : NOT . conditions
       [shift |-> {<<"BRACKETED_COLNAME", 19>>, <<"COLNUMBER", 20>>, <<"FLOATNUMBER", 42>>,
        <<"LPAREN", 43>>, <<"NEGATIVE_INTNUMBER", 44>>, <<"NOT", 45>>,
        <<"POSITIVE_INTNUMBER", 47>>, <<"SIMPLE_COLNAME", 21>>, <<"STRING", 48>>},
        reduce |-> {}, goto |-> {<<"NUMBER", 46>>, <<"column", 49>>, <<"conditions", 64>>,
        <<"exp", 51>>}],
    \* 46: exp : NUMBER .
       [shift |-> {}, reduce |-> {<<47, {"$end", "AND", "BIGGER", "BIGGER_EQUAL", "EQUAL",
        "GROUP", "LIKE", "LIMIT", "NOTEQUAL", "OR", "ORDER", "RPAREN", "SIMICOLON",
        "SMALLER", "SMALLER_EQUAL", "TAIL"}>>}, goto |-> {}],
    \* 47: NUMBER : POSITIVE_INTNUMBER .
       [shift |-> {}, reduce |-> {<<49, {"$end", "AND", "BIGGER", "BIGGER_EQUAL", "COMMA",
        "EQUAL", "GROUP", "LIKE", "LIMIT", "NOTEQUAL", "OR", "ORDER", "RPAREN", "SIMICOLON",
        "SMALLER", "SMALLER_EQUAL", "TAIL", "WHERE"}>>}, goto |-> {}],
    \* 48: exp : STRING .
       [shift |-> {}, reduce |-> {<<46, {"$end", "AND", "BIGGER", "BIGGER_EQUAL", "EQUAL",
        "GROUP", "LIKE", "LIMIT", "NOTEQUAL", "OR", "ORDER", "RPAREN", "SIMICOLON",
        "SMALLER", "SMALLER_EQUAL", "TAIL"}>>}, goto |-> {}],
    \* 49: exp : column .
       [shift |-> {}, reduce |-> {<<45, {"$end", "AND", "BIGGER", "BIGGER_EQUAL", "EQUAL",
        "GROUP", "LIKE", "LIMIT", "NOTEQUAL", "OR", "ORDER", "RPAREN", "SIMICOLON",
        "SMALLER", "SMALLER_EQUAL", "TAIL"}>>}, goto |-> {}],
    \* 50: where : WHERE conditions .
    \* 50: conditions : conditions . AND conditions
    \* 50: conditions : conditions . OR conditions
       [shift |-> {<<"AND", 65>>, <<"OR", 66>>}, reduce |-> {<<37, {"$end", "GROUP", "LIMIT",
        "ORDER", "SIMICOLON", "TAIL"}>>}, goto |-> {}],
    \* 51: conditions : exp . LIKE STRING
    \* 51: conditions : exp . logical exp
       [shift |-> {<<"BIGGER", 67>>, <<"BIGGER_EQUAL", 68>>, <<"EQUAL", 69>>, <<"LIKE", 70>>,
        <<"NOTEQUAL", 71>>, <<"SMALLER", 72>>, <<"SMALLER_EQUAL", 73>>}, reduce |-> {},
        goto |-> {<<"logical", 74>>}],
    \* 52: icolumns : column .
       [shift |-> {}, reduce |-> {<<97, {"COMMA", "LIMIT", "ORDER", "RPAREN", "SIMICOLON",
        "TAIL"}>>}, goto |-> {}],
    \* 53: icolumn : LPAREN icolumns . RPAREN
    \* 53: icolumns : icolumns . COMMA icolumns
       [shift |-> {<<"COMMA", 75>>, <<"RPAREN", 76>>}, reduce |-> {}, goto |-> {}],
    \* 54: insert : INSERT INTO DATASOURCE icolumn VALUES . insert_values SIMICOLON
       [shift |-> {<<"LPAREN", 77>>}, reduce |-> {}, goto |-> {<<"insert_values", 78>>,
        <<"single_values", 79>>}],
    \* 55: aggregation_function : AGGREGATION_FUNCTION LPAREN TIMES . RPAREN
       [shift |-> {<<"RPAREN", 80>>}, reduce |-> {}, goto |-> {}],
    \* 56: aggregation_function : AGGREGATION_FUNCTION LPAREN column . RPAREN
       [shift |-> {<<"RPAREN", 81>>}, reduce |-> {}, goto |-> {}],
    \* 57: columns : columns . COMMA columns
    \* 57: columns : columns COMMA columns .
       [shift |-> {<<"COMMA", 35>>}, reduce |-> {<<56, {"FROM", "INTO"}>>}, goto |-> {}],
    \* 58: into_statement : INTO DATASOURCE .
       [shift |-> {}, reduce |-> {<<63, {"FROM"}>>}, goto |-> {}],
    \* 59: select : SELECT distinct select_columns into_statement FROM . table_source join_clauses where group order limit_or_tail SIMICOLON
       [shift |-> {<<"DATASOURCE", 82>>}, reduce |-> {}, goto |-> {<<"table_source", 83>>}],
    \* 60: assigns : assign COMMA . assigns
       [shift |-> {<<"BRACKETED_COLNAME", 19>>, <<"COLNUMBER", 20>>, <<"SIMPLE_COLNAME",
        21>>}, reduce |-> {}, goto |-> {<<"assign", 39>>, <<"assigns", 84>>, <<"column",
        41>>}],
    \* 61: update : UPDATE DATASOURCE SET assigns where . SIMICOLON
       [shift |-> {<<"SIMICOLON", 85>>}, reduce |-> {}, goto |-> {}],
    \* 62: assign : column EQUAL . value
       [shift |-> {<<"FLOATNUMBER", 42>>, <<"NEGATIVE_INTNUMBER", 44>>,
        <<"POSITIVE_INTNUMBER", 47>>, <<"STRING", 87>>}, reduce |-> {}, goto |-> {<<"NUMBER",
        86>>, <<"value", 88>>}],
    \* 63: conditions : LPAREN conditions . RPAREN
    \* 63: conditions : conditions . AND conditions
    \* 63: conditions : conditions . OR conditions
       [shift |-> {<<"AND", 65>>, <<"OR", 66>>, <<"RPAREN", 89>>}, reduce |-> {},
        goto |-> {}],
    \* 64: conditions : conditions . AND conditions
    \* 64: conditions : conditions . OR conditions
    \* 64: conditions : NOT conditions .
       [shift |-> {<<"AND", 65>>, <<"OR", 66>>}, reduce |-> {<<44, {"$end", "GROUP", "LIMIT",
        "ORDER", "RPAREN", "SIMICOLON", "TAIL"}>>}, goto |-> {}],
    \* 65: conditions : conditions AND . conditions
       [shift |-> {<<"BRACKETED_COLNAME", 19>>, <<"COLNUMBER", 20>>, <<"FLOATNUMBER", 42>>,
        <<"LPAREN", 43>>, <<"NEGATIVE_INTNUMBER", 44>>, <<"NOT", 45>>,
        <<"POSITIVE_INTNUMBER", 47>>, <<"SIMPLE_COLNAME", 21>>, <<"STRING", 48>>},
        reduce |-> {}, goto |-> {<<"NUMBER", 46>>, <<"column", 49>>, <<"conditions", 90>>,
        <<"exp", 51>>}],
    \* 66: conditions : conditions OR . conditions
       [shift |-> {<<"BRACKETED_COLNAME", 19>>, <<"COLNUMBER", 20>>, <<"FLOATNUMBER", 42>>,
        <<"LPAREN", 43>>, <<"NEGATIVE_INTNUMBER", 44>>, <<"NOT", 45>>,
        <<"POSITIVE_INTNUMBER", 47>>, <<"SIMPLE_COLNAME", 21>>, <<"STRING", 48>>},
        reduce |-> {}, goto |-> {<<"NUMBER", 46>>, <<"column", 49>>, <<"conditions", 91>>,
        <<"exp", 51>>}],
    \* 67: logical : BIGGER .
       [shift |-> {}, reduce |-> {<<34, {"BRACKETED_COLNAME", "COLNUMBER", "FLOATNUMBER",
        "NEGATIVE_INTNUMBER", "POSITIVE_INTNUMBER", "SIMPLE_COLNAME", "STRING"}>>},
        goto |-> {}],
    \* 68: logical : BIGGER_EQUAL .
       [shift |-> {}, reduce |-> {<<33, {"BRACKETED_COLNAME", "COLNUMBER", "FLOATNUMBER",
        "NEGATIVE_INTNUMBER", "POSITIVE_INTNUMBER", "SIMPLE_COLNAME", "STRING"}>>},
        goto |-> {}],
    \* 69: logical : EQUAL .
       [shift |-> {}, reduce |-> {<<31, {"BRACKETED_COLNAME", "COLNUMBER", "FLOATNUMBER",
        "NEGATIVE_INTNUMBER", "POSITIVE_INTNUMBER", "SIMPLE_COLNAME", "STRING"}>>},
        goto |-> {}],
    \* 70: conditions : exp LIKE . STRING
       [shift |-> {<<"STRING", 92>>}, reduce |-> {}, goto |-> {}],
    \* 71: logical : NOTEQUAL .
       [shift |-> {}, reduce |-> {<<32, {"BRACKETED_COLNAME", "COLNUMBER", "FLOATNUMBER",
        "NEGATIVE_INTNUMBER", "POSITIVE_INTNUMBER", "SIMPLE_COLNAME", "STRING"}>>},
        goto |-> {}],
    \* 72: logical : SMALLER .
       [shift |-> {}, reduce |-> {<<36, {"BRACKETED_COLNAME", "COLNUMBER", "FLOATNUMBER",
        "NEGATIVE_INTNUMBER", "POSITIVE_INTNUMBER", "SIMPLE_COLNAME", "STRING"}>>},
        goto |-> {}],
    \* 73: logical : SMALLER_EQUAL .
       [shift |-> {}, reduce |-> {<<35, {"BRACKETED_COLNAME", "COLNUMBER", "FLOATNUMBER",
        "NEGATIVE_INTNUMBER", "POSITIVE_INTNUMBER", "SIMPLE_COLNAME", "STRING"}>>},
        goto |-> {}],
    \* 74: conditions : exp logical . exp
       [shift |-> {<<"BRACKETED_COLNAME", 19>>, <<"COLNUMBER", 20>>, <<"FLOATNUMBER", 42>>,
        <<"NEGATIVE_INTNUMBER", 44>>, <<"POSITIVE_INTNUMBER", 47>>, <<"SIMPLE_COLNAME", 21>>,
        <<"STRING", 48>>}, reduce |-> {}, goto |-> {<<"NUMBER", 46>>, <<"column", 49>>,
        <<"exp", 93>>}],
    \* 75: icolumns : icolumns COMMA . icolumns
       [shift |-> {<<"BRACKETED_COLNAME", 19>>, <<"COLNUMBER", 20>>, <<"SIMPLE_COLNAME",
        21>>}, reduce |-> {}, goto |-> {<<"column", 52>>, <<"icolumns", 94>>}],
    \* 76: icolumn : LPAREN icolumns RPAREN .
       [shift |-> {}, reduce |-> {<<94, {"VALUES"}>>}, goto |-> {}],
    \* 77: single_values : LPAREN . values RPAREN
       [shift |-> {<<"FLOATNUMBER", 42>>, <<"NEGATIVE_INTNUMBER", 44>>,
        <<"POSITIVE_INTNUMBER", 47>>, <<"STRING", 87>>}, reduce |-> {}, goto |-> {<<"NUMBER",
        86>>, <<"value", 95>>, <<"values", 96>>}],
    \* 78: insert : INSERT INTO DATASOURCE icolumn VALUES insert_values . SIMICOLON
    \* 78: insert_values : insert_values . COMMA insert_values
       [shift |-> {<<"COMMA", 97>>, <<"SIMICOLON", 98>>}, reduce |-> {}, goto |-> {}],
    \* 79: insert_values : single_values .
       [shift |-> {}, reduce |-> {<<93, {"COMMA", "SIMICOLON"}>>}, goto |-> {}],
    \* 80: aggregation_function : AGGREGATION_FUNCTION LPAREN TIMES RPAREN .
       [shift |-> {}, reduce |-> {<<60, {"COMMA", "FROM", "INTO"}>>}, goto |-> {}],
    \* 81: aggregation_function : AGGREGATION_FUNCTION LPAREN column RPAREN .
       [shift |-> {}, reduce |-> {<<59, {"COMMA", "FROM", "INTO"}>>}, goto |-> {}],
    \* 82: table_source : DATASOURCE . AS SIMPLE_COLNAME
    \* 82: table_source : DATASOURCE .
       [shift |-> {<<"AS", 99>>}, reduce |-> {<<8, {"FULL", "GROUP", "INNER", "JOIN", "LEFT",
        "LIMIT", "ON", "ORDER", "RIGHT", "SIMICOLON", "TAIL", "WHERE"}>>}, goto |-> {}],
    \* 83: select : SELECT distinct select_columns into_statement FROM table_source . join_clauses where group order limit_or_tail SIMICOLON
       [shift |-> {<<"FULL", 100>>, <<"INNER", 101>>, <<"JOIN", 102>>, <<"LEFT", 103>>,
        <<"RIGHT", 104>>}, reduce |-> {<<5, {"GROUP", "LIMIT", "ORDER", "SIMICOLON", "TAIL",
        "WHERE"}>>}, goto |-> {<<"empty", 105>>, <<"join_clause", 106>>, <<"join_clauses",
        107>>, <<"join_type", 108>>}],
    \* 84: assigns : assign COMMA assigns .
       [shift |-> {}, reduce |-> {<<99, {"SIMICOLON", "WHERE"}>>}, goto |-> {}],
    \* 85: update : UPDATE DATASOURCE SET assigns where SIMICOLON .
       [shift |-> {}, reduce |-> {<<29, {"$end"}>>}, goto |-> {}],
    \* 86: value : NUMBER .
       [shift |-> {}, reduce |-> {<<88, {"COMMA", "RPAREN", "SIMICOLON", "WHERE"}>>},
        goto |-> {}],
    \* 87: value : STRING .
       [shift |-> {}, reduce |-> {<<87, {"COMMA", "RPAREN", "SIMICOLON", "WHERE"}>>},
        goto |-> {}],
    \* 88: assign : column EQUAL value .
       [shift |-> {}, reduce |-> {<<98, {"COMMA", "SIMICOLON", "WHERE"}>>}, goto |-> {}],
    \* 89: conditions : LPAREN conditions RPAREN .
       [shift |-> {}, reduce |-> {<<39, {"$end", "AND", "GROUP", "LIMIT", "OR", "ORDER",
        "RPAREN", "SIMICOLON", "TAIL"}>>}, goto |-> {}],
    \* 90: conditions : conditions . AND conditions
    \* 90: conditions : conditions AND conditions .
    \* 90: conditions : conditions . OR conditions
       [shift |-> {<<"AND", 65>>, <<"OR", 66>>}, reduce |-> {<<40, {"$end", "GROUP", "LIMIT",
        "ORDER", "RPAREN", "SIMICOLON", "TAIL"}>>}, goto |-> {}],
    \* 91: conditions : conditions . AND conditions
    \* 91: conditions : conditions . OR conditions
    \* 91: conditions : conditions OR conditions .
       [shift |-> {<<"AND", 65>>, <<"OR", 66>>}, reduce |-> {<<41, {"$end", "GROUP", "LIMIT",
        "ORDER", "RPAREN", "SIMICOLON", "TAIL"}>>}, goto |-> {}],
    \* 92: conditions : exp LIKE STRING .
       [shift |-> {}, reduce |-> {<<42, {"$end", "AND", "GROUP", "LIMIT", "OR", "ORDER",
        "RPAREN", "SIMICOLON", "TAIL"}>>}, goto |-> {}],
    \* 93: conditions : exp logical exp .
       [shift |-> {}, reduce |-> {<<43, {"$end", "AND", "GROUP", "LIMIT", "OR", "ORDER",
        "RPAREN", "SIMICOLON", "TAIL"}>>}, goto |-> {}],
    \* 94: icolumns : icolumns . COMMA icolumns
    \* 94: icolumns : icolumns COMMA icolumns .
       [shift |-> {<<"COMMA", 75>>}, reduce |-> {<<96, {"LIMIT", "ORDER", "RPAREN",
        "SIMICOLON", "TAIL"}>>}, goto |-> {}],
    \* 95: values : value .
       [shift |-> {}, reduce |-> {<<90, {"COMMA", "RPAREN"}>>}, goto |-> {}],
    \* 96: values : values . COMMA values
    \* 96: single_values : LPAREN values . RPAREN
       [shift |-> {<<"COMMA", 109>>, <<"RPAREN", 110>>}, reduce |-> {}, goto |-> {}],
    \* 97: insert_values : insert_values COMMA . insert_values
       [shift |-> {<<"LPAREN", 77>>}, reduce |-> {}, goto |-> {<<"insert_values", 111>>,
        <<"single_values", 79>>}],
    \* 98: insert : INSERT INTO DATASOURCE icolumn VALUES insert_values SIMICOLON .
       [shift |-> {}, reduce |-> {<<28, {"$end"}>>}, goto |-> {}],
    \* 99: table_source : DATASOURCE AS . SIMPLE_COLNAME
       [shift |-> {<<"SIMPLE_COLNAME", 112>>}, reduce |-> {}, goto |-> {}],
    \* 100: join_type : FULL . JOIN
    \* 100: join_type : FULL . OUTER JOIN
       [shift |-> {<<"JOIN", 113>>, <<"OUTER", 114>>}, reduce |-> {}, goto |-> {}],
    \* 101: join_type : INNER . JOIN
       [shift |-> {<<"JOIN", 115>>}, reduce |-> {}, goto |-> {}],
    \* 102: join_type : JOIN .
       [shift |-> {}, reduce |-> {<<13, {"DATASOURCE"}>>}, goto |-> {}],
    \* 103: join_type : LEFT . JOIN
    \* 103: join_type : LEFT . OUTER JOIN
       [shift |-> {<<"JOIN", 116>>, <<"OUTER", 117>>}, reduce |-> {}, goto |-> {}],
    \* 104: join_type : RIGHT . JOIN
    \* 104: join_type : RIGHT . OUTER JOIN
       [shift |-> {<<"JOIN", 118>>, <<"OUTER", 119>>}, reduce |-> {}, goto |-> {}],
    \* 105: join_clauses : empty .
       [shift |-> {}, reduce |-> {<<11, {"FULL", "GROUP", "INNER", "JOIN", "LEFT", "LIMIT",
        "ORDER", "RIGHT", "SIMICOLON", "TAIL", "WHERE"}>>}, goto |-> {}],
    \* 106: join_clauses : join_clause .
       [shift |-> {}, reduce |-> {<<10, {"FULL", "GROUP", "INNER", "JOIN", "LEFT", "LIMIT",
        "ORDER", "RIGHT", "SIMICOLON", "TAIL", "WHERE"}>>}, goto |-> {}],
    \* 107: select : SELECT distinct select_columns into_statement FROM table_source join_clauses . where group order limit_or_tail SIMICOLON
    \* 107: join_clauses : join_clauses . join_clause
       [shift |-> {<<"FULL", 100>>, <<"INNER", 101>>, <<"JOIN", 102>>, <<"LEFT", 103>>,
        <<"RIGHT", 104>>, <<"WHERE", 28>>}, reduce |-> {<<5, {"GROUP", "LIMIT", "ORDER",
        "SIMICOLON", "TAIL"}>>}, goto |-> {<<"empty", 29>>, <<"join_clause", 120>>,
        <<"join_type", 108>>, <<"where", 121>>}],
    \* 108: join_clause : join_type . table_source on_statement
       [shift |-> {<<"DATASOURCE", 82>>}, reduce |-> {}, goto |-> {<<"table_source", 122>>}],
    \* 109: values : values COMMA . values
       [shift |-> {<<"FLOATNUMBER", 42>>, <<"NEGATIVE_INTNUMBER", 44>>,
        <<"POSITIVE_INTNUMBER", 47>>, <<"STRING", 87>>}, reduce |-> {}, goto |-> {<<"NUMBER",
        86>>, <<"value", 95>>, <<"values", 123>>}],
    \* 110: single_values : LPAREN values RPAREN .
       [shift |-> {}, reduce |-> {<<91, {"COMMA", "SIMICOLON"}>>}, goto |-> {}],
    \* 111: insert_values : insert_values . COMMA insert_values
    \* 111: insert_values : insert_values COMMA insert_values .
       [shift |-> {<<"COMMA", 97>>}, reduce |-> {<<92, {"SIMICOLON"}>>}, goto |-> {}],
    \* 112: table_source : DATASOURCE AS SIMPLE_COLNAME .
       [shift |-> {}, reduce |-> {<<7, {"FULL", "GROUP", "INNER", "JOIN", "LEFT", "LIMIT",
        "ON", "ORDER", "RIGHT", "SIMICOLON", "TAIL", "WHERE"}>>}, goto |-> {}],
    \* 113: join_type : FULL JOIN .
       [shift |-> {}, reduce |-> {<<19, {"DATASOURCE"}>>}, goto |-> {}],
    \* 114: join_type : FULL OUTER . JOIN
       [shift |-> {<<"JOIN", 124>>}, reduce |-> {}, goto |-> {}],
    \* 115: join_type : INNER JOIN .
       [shift |-> {}, reduce |-> {<<14, {"DATASOURCE"}>>}, goto |-> {}],
    \* 116: join_type : LEFT JOIN .
       [shift |-> {}, reduce |-> {<<15, {"DATASOURCE"}>>}, goto |-> {}],
    \* 117: join_type : LEFT OUTER . JOIN
       [shift |-> {<<"JOIN", 125>>}, reduce |-> {}, goto |-> {}],
    \* 118: join_type : RIGHT JOIN .
       [shift |-> {}, reduce |-> {<<17, {"DATASOURCE"}>>}, goto |-> {}],
    \* 119: join_type : RIGHT OUTER . JOIN
       [shift |-> {<<"JOIN", 126>>}, reduce |-> {}, goto |-> {}],
    \* 120: join_clauses : join_clauses join_clause .
       [shift |-> {}, reduce |-> {<<9, {"FULL", "GROUP", "INNER", "JOIN", "LEFT", "LIMIT",
        "ORDER", "RIGHT", "SIMICOLON", "TAIL", "WHERE"}>>}, goto |-> {}],
    \* 121: select : SELECT distinct select_columns into_statement FROM table_source join_clauses where . group order limit_or_tail SIMICOLON
       [shift |-> {<<"GROUP", 127>>}, reduce |-> {<<5, {"LIMIT", "ORDER", "SIMICOLON",
        "TAIL"}>>}, goto |-> {<<"empty", 128>>, <<"group", 129>>}],
    \* 122: join_clause : join_type table_source . on_statement
       [shift |-> {<<"ON", 130>>}, reduce |-> {}, goto |-> {<<"on_statement", 131>>}],
    \* 123: values : values . COMMA values
    \* 123: values : values COMMA values .
       [shift |-> {<<"COMMA", 109>>}, reduce |-> {<<89, {"RPAREN"}>>}, goto |-> {}],
    \* 124: join_type : FULL OUTER JOIN .
       [shift |-> {}, reduce |-> {<<20, {"DATASOURCE"}>>}, goto |-> {}],
    \* 125: join_type : LEFT OUTER JOIN .
       [shift |-> {}, reduce |-> {<<16, {"DATASOURCE"}>>}, goto |-> {}],
    \* 126: join_type : RIGHT OUTER JOIN .
       [shift |-> {}, reduce |-> {<<18, {"DATASOURCE"}>>}, goto |-> {}],
    \* 127: group : GROUP . BY icolumns
       [shift |-> {<<"BY", 132>>}, reduce |-> {}, goto |-> {}],
    \* 128: group : empty .
       [shift |-> {}, reduce |-> {<<66, {"LIMIT", "ORDER", "SIMICOLON", "TAIL"}>>},
        goto |-> {}],
    \* 129: select : SELECT distinct select_columns into_statement FROM table_source join_clauses where group . order limit_or_tail SIMICOLON
       [shift |-> {<<"ORDER", 133>>}, reduce |-> {<<5, {"LIMIT", "SIMICOLON", "TAIL"}>>},
        goto |-> {<<"empty", 134>>, <<"order", 135>>}],
    \* 130: on_statement : ON . on_conditions
       [shift |-> {<<"BRACKETED_COLNAME", 19>>, <<"COLNUMBER", 20>>, <<"SIMPLE_COLNAME",
        136>>}, reduce |-> {}, goto |-> {<<"column", 137>>, <<"on_conditions", 138>>,
        <<"qualified_column", 139>>}],
    \* 131: join_clause : join_type table_source on_statement .
       [shift |-> {}, reduce |-> {<<12, {"FULL", "GROUP", "INNER", "JOIN", "LEFT", "LIMIT",
        "ORDER", "RIGHT", "SIMICOLON", "TAIL", "WHERE"}>>}, goto |-> {}],
    \* 132: group : GROUP BY . icolumns
       [shift |-> {<<"BRACKETED_COLNAME", 19>>, <<"COLNUMBER", 20>>, <<"SIMPLE_COLNAME",
        21>>}, reduce |-> {}, goto |-> {<<"column", 52>>, <<"icolumns", 140>>}],
    \* 133: order : ORDER . BY order_by_parameters
       [shift |-> {<<"BY", 141>>}, reduce |-> {}, goto |-> {}],
    \* 134: order : empty .
       [shift |-> {}, reduce |-> {<<80, {"LIMIT", "SIMICOLON", "TAIL"}>>}, goto |-> {}],
    \* 135: select : SELECT distinct select_columns into_statement FROM table_source join_clauses where group order . limit_or_tail SIMICOLON
       [shift |-> {<<"LIMIT", 142>>, <<"TAIL", 143>>}, reduce |-> {<<5, {"SIMICOLON"}>>},
        goto |-> {<<"empty", 144>>, <<"limit_or_tail", 145>>}],
    \* 136: qualified_column : SIMPLE_COLNAME . DOT SIMPLE_COLNAME
    \* 136: qualified_column : SIMPLE_COLNAME . DOT BRACKETED_COLNAME
    \* 136: column : SIMPLE_COLNAME .
       [shift |-> {<<"DOT", 146>>}, reduce |-> {<<55, {"AND", "EQUAL", "FULL", "GROUP",
        "INNER", "JOIN", "LEFT", "LIMIT", "OR", "ORDER", "RIGHT", "SIMICOLON", "TAIL",
        "WHERE"}>>}, goto |-> {}],
    \* 137: qualified_column : column .
       [shift |-> {}, reduce |-> {<<27, {"AND", "EQUAL", "FULL", "GROUP", "INNER", "JOIN",
        "LEFT", "LIMIT", "OR", "ORDER", "RIGHT", "SIMICOLON", "TAIL", "WHERE"}>>},
        goto |-> {}],
    \* 138: on_statement : ON on_conditions .
    \* 138: on_conditions : on_conditions . AND on_conditions
    \* 138: on_conditions : on_conditions . OR on_conditions
       [shift |-> {<<"AND", 147>>, <<"OR", 148>>}, reduce |-> {<<21, {"FULL", "GROUP",
        "INNER", "JOIN", "LEFT", "LIMIT", "ORDER", "RIGHT", "SIMICOLON", "TAIL", "WHERE"}>>},
        goto |-> {}],
    \* 139: on_conditions : qualified_column . EQUAL qualified_column
       [shift |-> {<<"EQUAL", 149>>}, reduce |-> {}, goto |-> {}],
    \* 140: group : GROUP BY icolumns .
    \* 140: icolumns : icolumns . COMMA icolumns
       [shift |-> {<<"COMMA", 75>>}, reduce |-> {<<65, {"LIMIT", "ORDER", "SIMICOLON",
        "TAIL"}>>}, goto |-> {}],
    \* 141: order : ORDER BY . order_by_parameters
       [shift |-> {<<"AGGREGATION_FUNCTION", 150>>, <<"BRACKETED_COLNAME", 151>>,
        <<"COLNUMBER", 152>>, <<"SIMPLE_COLNAME", 153>>}, reduce |-> {},
        goto |-> {<<"bracketed_column_name", 154>>, <<"column_index", 155>>,
        <<"custom_aggregation_column", 156>>, <<"custom_column", 157>>, <<"order_by_param",
        158>>, <<"order_by_parameters", 159>>, <<"simple_column_name", 160>>}],
    \* 142: limit_or_tail : LIMIT . POSITIVE_INTNUMBER
       [shift |-> {<<"POSITIVE_INTNUMBER", 161>>}, reduce |-> {}, goto |-> {}],
    \* 143: limit_or_tail : TAIL . POSITIVE_INTNUMBER
       [shift |-> {<<"POSITIVE_INTNUMBER", 162>>}, reduce |-> {}, goto |-> {}],
    \* 144: limit_or_tail : empty .
       [shift |-> {}, reduce |-> {<<86, {"SIMICOLON"}>>}, goto |-> {}],
    \* 145: select : SELECT distinct select_columns into_statement FROM table_source join_clauses where group order limit_or_tail . SIMICOLON
       [shift |-> {<<"SIMICOLON", 163>>}, reduce |-> {}, goto |-> {}],
    \* 146: qualified_column : SIMPLE_COLNAME DOT . SIMPLE_COLNAME
    \* 146: qualified_column : SIMPLE_COLNAME DOT . BRACKETED_COLNAME
       [shift |-> {<<"BRACKETED_COLNAME", 164>>, <<"SIMPLE_COLNAME", 165>>}, reduce |-> {},
        goto |-> {}],
    \* 147: on_conditions : on_conditions AND . on_conditions
       [shift |-> {<<"BRACKETED_COLNAME", 19>>, <<"COLNUMBER", 20>>, <<"SIMPLE_COLNAME",
        136>>}, reduce |-> {}, goto |-> {<<"column", 137>>, <<"on_conditions", 166>>,
        <<"qualified_column", 139>>}],
    \* 148: on_conditions : on_conditions OR . on_conditions
       [shift |-> {<<"BRACKETED_COLNAME", 19>>, <<"COLNUMBER", 20>>, <<"SIMPLE_COLNAME",
        136>>}, reduce |-> {}, goto |-> {<<"column", 137>>, <<"on_conditions", 167>>,
        <<"qualified_column", 139>>}],
    \* 149: on_conditions : qualified_column EQUAL . qualified_column
       [shift |-> {<<"BRACKETED_COLNAME", 19>>, <<"COLNUMBER", 20>>, <<"SIMPLE_COLNAME",
        136>>}, reduce |-> {}, goto |-> {<<"column", 137>>, <<"qualified_column", 168>>}],
    \* 150: custom_aggregation_column : AGGREGATION_FUNCTION . LPAREN custom_column RPAREN
    \* 150: custom_aggregation_column : AGGREGATION_FUNCTION . LPAREN TIMES RPAREN
       [shift |-> {<<"LPAREN", 169>>}, reduce |-> {}, goto |-> {}],
    \* 151: bracketed_column_name : BRACKETED_COLNAME .
       [shift |-> {}, reduce |-> {<<68, {"ASC", "COMMA", "DESC", "LIMIT", "RPAREN",
        "SIMICOLON", "TAIL"}>>}, goto |-> {}],
    \* 152: column_index : COLNUMBER .
       [shift |-> {}, reduce |-> {<<69, {"ASC", "COMMA", "DESC", "LIMIT", "RPAREN",
        "SIMICOLON", "TAIL"}>>}, goto |-> {}],
    \* 153: simple_column_name : SIMPLE_COLNAME .
       [shift |-> {}, reduce |-> {<<67, {"ASC", "COMMA", "DESC", "LIMIT", "RPAREN",
        "SIMICOLON", "TAIL"}>>}, goto |-> {}],
    \* 154: custom_column : bracketed_column_name .
       [shift |-> {}, reduce |-> {<<70, {"ASC", "COMMA", "DESC", "LIMIT", "RPAREN",
        "SIMICOLON", "TAIL"}>>}, goto |-> {}],
    \* 155: custom_column : column_index .
       [shift |-> {}, reduce |-> {<<72, {"ASC", "COMMA", "DESC", "LIMIT", "RPAREN",
        "SIMICOLON", "TAIL"}>>}, goto |-> {}],
    \* 156: order_by_param : custom_aggregation_column . way
       [shift |-> {<<"ASC", 170>>, <<"DESC", 171>>}, reduce |-> {<<5, {"COMMA", "LIMIT",
        "SIMICOLON", "TAIL"}>>}, goto |-> {<<"empty", 172>>, <<"way", 173>>}],
    \* 157: order_by_param : custom_column . way
       [shift |-> {<<"ASC", 170>>, <<"DESC", 171>>}, reduce |-> {<<5, {"COMMA", "LIMIT",
        "SIMICOLON", "TAIL"}>>}, goto |-> {<<"empty", 172>>, <<"way", 174>>}],
    \* 158: order_by_parameters : order_by_param .
       [shift |-> {}, reduce |-> {<<77, {"COMMA", "LIMIT", "SIMICOLON", "TAIL"}>>},
        goto |-> {}],
    \* 159: order_by_parameters : order_by_parameters . COMMA order_by_parameters
    \* 159: order : ORDER BY order_by_parameters .
       [shift |-> {<<"COMMA", 175>>}, reduce |-> {<<79, {"LIMIT", "SIMICOLON", "TAIL"}>>},
        goto |-> {}],
    \* 160: custom_column : simple_column_name .
       [shift |-> {}, reduce |-> {<<71, {"ASC", "COMMA", "DESC", "LIMIT", "RPAREN",
        "SIMICOLON", "TAIL"}>>}, goto |-> {}],
    \* 161: limit_or_tail : LIMIT POSITIVE_INTNUMBER .
       [shift |-> {}, reduce |-> {<<84, {"SIMICOLON"}>>}, goto |-> {}],
    \* 162: limit_or_tail : TAIL POSITIVE_INTNUMBER .
       [shift |-> {}, reduce |-> {<<85, {"SIMICOLON"}>>}, goto |-> {}],
    \* 163: select : SELECT distinct select_columns into_statement FROM table_source join_clauses where group order limit_or_tail SIMICOLON .
       [shift |-> {}, reduce |-> {<<6, {"$end"}>>}, goto |-> {}],
    \* 164: qualified_column : SIMPLE_COLNAME DOT BRACKETED_COLNAME .
       [shift |-> {}, reduce |-> {<<26, {"AND", "EQUAL", "FULL", "GROUP", "INNER", "JOIN",
        "LEFT", "LIMIT", "OR", "ORDER", "RIGHT", "SIMICOLON", "TAIL", "WHERE"}>>},
        goto |-> {}],
    \* 165: qualified_column : SIMPLE_COLNAME DOT SIMPLE_COLNAME .
       [shift |-> {}, reduce |-> {<<25, {"AND", "EQUAL", "FULL", "GROUP", "INNER", "JOIN",
        "LEFT", "LIMIT", "OR", "ORDER", "RIGHT", "SIMICOLON", "TAIL", "WHERE"}>>},
        goto |-> {}],
    \* 166: on_conditions : on_conditions . AND on_conditions
    \* 166: on_conditions : on_conditions AND on_conditions .
    \* 166: on_conditions : on_conditions . OR on_conditions
       [shift |-> {<<"AND", 147>>, <<"OR", 148>>}, reduce |-> {<<22, {"FULL", "GROUP",
        "INNER", "JOIN", "LEFT", "LIMIT", "ORDER", "RIGHT", "SIMICOLON", "TAIL", "WHERE"}>>},
        goto |-> {}],
    \* 167: on_conditions : on_conditions . AND on_conditions
    \* 167: on_conditions : on_conditions . OR on_conditions
    \* 167: on_conditions : on_conditions OR on_conditions .
       [shift |-> {<<"AND", 147>>, <<"OR", 148>>}, reduce |-> {<<23, {"FULL", "GROUP",
        "INNER", "JOIN", "LEFT", "LIMIT", "ORDER", "RIGHT", "SIMICOLON", "TAIL", "WHERE"}>>},
        goto |-> {}],
    \* 168: on_conditions : qualified_column EQUAL qualified_column .
       [shift |-> {}, reduce |-> {<<24, {"AND", "FULL", "GROUP", "INNER", "JOIN", "LEFT",
        "LIMIT", "OR", "ORDER", "RIGHT", "SIMICOLON", "TAIL", "WHERE"}>>}, goto |-> {}],
    \* 169: custom_aggregation_column : AGGREGATION_FUNCTION LPAREN . custom_column RPAREN
    \* 169: custom_aggregation_column : AGGREGATION_FUNCTION LPAREN . TIMES RPAREN
       [shift |-> {<<"BRACKETED_COLNAME", 151>>, <<"COLNUMBER", 152>>, <<"SIMPLE_COLNAME",
        153>>, <<"TIMES", 176>>}, reduce |-> {}, goto |-> {<<"bracketed_column_name", 154>>,
        <<"column_index", 155>>, <<"custom_column", 177>>, <<"simple_column_name", 160>>}],
    \* 170: way : ASC .
       [shift |-> {}, reduce |-> {<<81, {"COMMA", "LIMIT", "SIMICOLON", "TAIL"}>>},
        goto |-> {}],
    \* 171: way : DESC .
       [shift |-> {}, reduce |-> {<<83, {"COMMA", "LIMIT", "SIMICOLON", "TAIL"}>>},
        goto |-> {}],
    \* 172: way : empty .
       [shift |-> {}, reduce |-> {<<82, {"COMMA", "LIMIT", "SIMICOLON", "TAIL"}>>},
        goto |-> {}],
    \* 173: order_by_param : custom_aggregation_column way .
       [shift |-> {}, reduce |-> {<<75, {"COMMA", "LIMIT", "SIMICOLON", "TAIL"}>>},
        goto |-> {}],
    \* 174: order_by_param : custom_column way .
       [shift |-> {}, reduce |-> {<<76, {"COMMA", "LIMIT", "SIMICOLON", "TAIL"}>>},
        goto |-> {}],
    \* 175: order_by_parameters : order_by_parameters COMMA . order_by_parameters
       [shift |-> {<<"AGGREGATION_FUNCTION", 150>>, <<"BRACKETED_COLNAME", 151>>,
        <<"COLNUMBER", 152>>, <<"SIMPLE_COLNAME", 153>>}, reduce |-> {},
        goto |-> {<<"bracketed_column_name", 154>>, <<"column_index", 155>>,
        <<"custom_aggregation_column", 156>>, <<"custom_column", 157>>, <<"order_by_param",
        158>>, <<"order_by_parameters", 178>>, <<"simple_column_name", 160>>}],
    \* 176: custom_aggregation_column : AGGREGATION_FUNCTION LPAREN TIMES . RPAREN
       [shift |-> {<<"RPAREN", 179>>}, reduce |-> {}, goto |-> {}],
    \* 177: custom_aggregation_column : AGGREGATION_FUNCTION LPAREN custom_column . RPAREN
       [shift |-> {<<"RPAREN", 180>>}, reduce |-> {}, goto |-> {}],
    \* 178: order_by_parameters : order_by_parameters . COMMA order_by_parameters
    \* 178: order_by_parameters : order_by_parameters COMMA order_by_parameters .
       [shift |-> {<<"COMMA", 175>>}, reduce |-> {<<78, {"LIMIT", "SIMICOLON", "TAIL"}>>},
        goto |-> {}],
    \* 179: custom_aggregation_column : AGGREGATION_FUNCTION LPAREN TIMES RPAREN .
       [shift |-> {}, reduce |-> {<<74, {"ASC", "COMMA", "DESC", "LIMIT", "SIMICOLON",
        "TAIL"}>>}, goto |-> {}],
    \* 180: custom_aggregation_column : AGGREGATION_FUNCTION LPAREN custom_column RPAREN .
       [shift |-> {}, reduce |-> {<<73, {"ASC", "COMMA", "DESC", "LIMIT", "SIMICOLON",
        "TAIL"}>>}, goto |-> {}] >>

\* the entry of the parsing table for state s
Entry(s) == ParsingTable[s + 1]

\* what the parser does in state s: a state that has one production to
\* reduce, on one token, and nothing else to do reduces it without looking
\* at the next token; any other state decides on the type `la` of the next
\* token ("$end" after the last one): shift it, reduce a production, accept,
\* or, when the table has nothing for it, report it
ParserAction(s, la) ==
    With(Entry(s), LAMBDA e :
         IF /\ e.shift = {} /\ Cardinality(e.reduce) = 1
            /\ \A r \in e.reduce : Cardinality(r[2]) = 1 /\ r[1] # 0
         THEN [kind |-> "reduce", n |-> (CHOOSE r \in e.reduce : TRUE)[1]]
         ELSE IF \E x \in e.shift : x[1] = la
         THEN [kind |-> "shift", n |-> (CHOOSE x \in e.shift : x[1] = la)[2]]
         ELSE IF \E r \in e.reduce : la \in r[2]
         THEN With((CHOOSE r \in e.reduce : la \in r[2])[1], LAMBDA n :
                   IF n = 0 THEN [kind |-> "accept", n |-> 0]
                   ELSE [kind |-> "reduce", n |-> n])
         ELSE [kind |-> "error", n |-> 0])

\* the state entered from state s after a reduction to the symbol lhs
Goto(s, lhs) == (CHOOSE x \in Entry(s).goto : x[1] = lhs)[2]

\* the parser at work, before the token of index pos, with its stack of
\* states and values; and the outcomes of a parse: the statement is accepted
\* with the value of its symbol; the token at index pos (Len + 1: the end of
\* the input) cannot continue a statement and p_error is called; or an
\* action raised
Parsing(pos, stack) == [kind |-> "parsing", pos |-> pos, stack |-> stack]
Accepted(value) ==
    [kind |-> "accept", pos |-> 0, value |-> value, err |-> "none", args |-> NoneVal]
Rejected(pos) ==
    [kind |-> "p_error", pos |-> pos, value |-> NoneVal, err |-> "none", args |-> NoneVal]
ActionRaised(pos, exc, args) ==
    [kind |-> "raise", pos |-> pos, value |-> NoneVal, err |-> exc, args |-> args]

\* one step of the parser: the next token is shifted, or a production is
\* reduced by its action, whose exception ends the parse, or the statement
\* is accepted, or p_error is called; a parse that is over stays as it is
ParseStep(ts, c) ==
    IF c.kind # "parsing" THEN c
    ELSE With(ParserAction(c.stack[Len(c.stack)].state,
                           IF c.pos <= Len(ts) THEN ts[c.pos].type ELSE "$end"), LAMBDA act :
         CASE act.kind = "shift" ->
                Parsing(c.pos + 1,
                        Append(c.stack, [state |-> act.n, value |-> ts[c.pos].value]))
           [] act.kind = "reduce" ->
                LET prod == Productions[act.n]
                    k == Len(prod.rhs)
                    below == SubSeq(c.stack, 1, Len(c.stack) - k)
                    p == [i \in 1..k |-> c.stack[Len(c.stack) - k + i].value]
                IN With(Reduce(prod.fn, prod.rhs, p), LAMBDA r :
                        IF r.err # "none" THEN ActionRaised(c.pos, r.err, r.args)
                        ELSE Parsing(c.pos,
                                     Append(below,
                                            [state |-> Goto(below[Len(below)].state,
                                                            prod.lhs),
                                             value |-> r.value])))
           [] act.kind = "accept" -> Accepted(c.stack[Len(c.stack)].value)
           [] OTHER -> Rejected(c.pos))

\* n steps of the parser from c
RECURSIVE ParseSteps(_, _, _)
ParseSteps(ts, c, n) ==
    IF n = 0 THEN c
    ELSE IF n = 1 THEN ParseStep(ts, c)
    ELSE With(ParseSteps(ts, c, n \div 2), LAMBDA d : ParseSteps(ts, d, n - (n \div 2)))

\* the parser run from c until the parse is over, n steps and then twice as
\* many at a time
RECURSIVE ParseFrom(_, _, _)
ParseFrom(ts, c, n) ==
    With(ParseSteps(ts, c, n), LAMBDA d :
         IF d.kind # "parsing" THEN d ELSE ParseFrom(ts, d, 2 * n))

\* the parse of a token stream, from state 0
ParseTokens(ts) == ParseFrom(ts, Parsing(1, <<[state |-> 0, value |-> NoneVal]>>), 16)

\* where the parser calls p_error on a stream: the index of the first token
\* that cannot continue a statement, which is Len(ts) + 1 when the stream
\* ends before the statement is complete; 0 when p_error is not called
ErrorPos(ts) == With(ParseTokens(ts), LAMBDA r : IF r.kind = "p_error" THEN r.pos ELSE 0)

\* what the parser passes to p_error: the offending token, or None at the end
\* of the input
ErrorToken(ts) == With(ErrorPos(ts), LAMBDA n : IF n > Len(ts) THEN NoneVal ELSE ts[n])

\* yacc.py:28-35, p_error: the attributes of p are read first, which raises
\* AttributeError when p is None
p_error(p) ==
    IF IsNone(p) THEN [err |-> "AttributeError", args |-> NoneVal]
    ELSE ParserError(p.value, p.lineno, p.lexpos)

---------------------------------------------------------------------------
(* Token streams handed to the parser *)

\* token types of the enumerated streams, with the text of each
TokenTypes == {"SELECT", "TIMES", "FROM", "DATASOURCE", "SIMICOLON"}

TokenValue(type) ==
    CASE type = "SELECT" -> PyStr(<<"S", "E", "L", "E", "C", "T">>)
      [] type = "TIMES" -> PyStr(<<"*">>)
      [] type = "FROM" -> PyStr(<<"F", "R", "O", "M">>)
      [] type = "DATASOURCE" -> PyStr(Lit(tCsv, pA))
      [] OTHER -> PyStr(<<";">>)

\* a token of a sentence: its type and its value
Tk(type, text) == <<type, PyStr(text)>>
\* a keyword or a mark, whose value is its text
Word(type) == <<type, PyStr([i \in 1..Len(type) |-> SubSeq(type, i, i)])>>
One == <<"POSITIVE_INTNUMBER", PyInt(1)>>
Two == <<"POSITIVE_INTNUMBER", PyInt(2)>>
Semi == Tk("SIMICOLON", <<";">>)
Comma == Tk("COMMA", <<",">>)
Open == Tk("LPAREN", <<"(">>)
Close == Tk("RPAREN", <<")">>)
Equal == Tk("EQUAL", <<"=">>)
Source(path) == Tk("DATASOURCE", Lit(tCsv, path))
Column(name) == Tk("SIMPLE_COLNAME", name)

\* INSERT INTO csv:a ( g ) VALUES ( 1 ) ;
InsertOne ==
    <<Word("INSERT"), Word("INTO"), Source(pA), Open, Column(cG), Close,
      Word("VALUES"), Open, One, Close, Semi>>

\* INSERT INTO csv:a VALUES ( 'x' , 1 ) , ( 2 ) ;
InsertRows ==
    <<Word("INSERT"), Word("INTO"), Source(pA), Word("VALUES"), Open,
      Tk("STRING", <<"x">>), Comma, One, Close, Comma, Open, Two, Close, Semi>>

\* INSERT INTO csv:a ( g ) VALUES ( 1 , 2 ) ;
InsertTooWide ==
    <<Word("INSERT"), Word("INTO"), Source(pA), Open, Column(cG), Close,
      Word("VALUES"), Open, One, Comma, Two, Close, Semi>>

\* INSERT INTO with a destination that holds a quote, and one that holds the
\* text a'+'b
InsertQuoted(path) ==
    <<Word("INSERT"), Word("INTO"), Source(path), Word("VALUES"), Open, One,
      Close, Semi>>

\* UPDATE csv:a SET g = 1 ; with one, two and three assignments
Assign == <<Column(cG), Equal, One>>
UpdateOne == <<Word("UPDATE"), Source(pA), Word("SET")>> \o Assign \o <<Semi>>
UpdateTwo ==
    <<Word("UPDATE"), Source(pA), Word("SET")>> \o Assign \o <<Comma>> \o Assign \o
    <<Semi>>
UpdateThree ==
    <<Word("UPDATE"), Source(pA), Word("SET")>> \o Assign \o <<Comma>> \o Assign \o
    <<Comma>> \o Assign \o <<Semi>>

\* DELETE FROM csv:a ;
DeleteAll == <<Word("DELETE"), Word("FROM"), Source(pA), Semi>>

\* SELECT sum ( * ) FROM csv:a ;
SelectSumStar ==
    <<Word("SELECT"), Tk("AGGREGATION_FUNCTION", FnSum), Open, Tk("TIMES", cStar),
      Close, Word("FROM"), Source(pA), Semi>>

\* SELECT DISTINCT [g] , size ( * ) INTO csv:out FROM csv:a AS t
\* LEFT OUTER JOIN csv:b ON t.a = b WHERE v >= 1 GROUP BY g
\* ORDER BY [0] DESC , size ( * ) LIMIT 1 ;
SelectFull ==
    <<Word("SELECT"), Word("DISTINCT"), Tk("BRACKETED_COLNAME", <<"[", "g", "]">>),
      Comma, Tk("AGGREGATION_FUNCTION", FnSize), Open, Tk("TIMES", cStar), Close,
      Word("INTO"), Source(pOut), Word("FROM"), Source(pA), Word("AS"),
      Column(<<"t">>), Word("LEFT"), Word("OUTER"), Word("JOIN"), Source(pB),
      Word("ON"), Column(<<"t">>), Tk("DOT", <<".">>), Column(cA), Equal, Column(cB),
      Word("WHERE"), Column(cV), Tk("BIGGER_EQUAL", <<">", "=">>), One,
      Word("GROUP"), Word("BY"), Column(cG), Word("ORDER"), Word("BY"),
      Tk("COLNUMBER", <<"[", "0", "]">>), Word("DESC"), Comma,
      Tk("AGGREGATION_FUNCTION", FnSize), Open, Tk("TIMES", cStar), Close,
      Tk("LIMIT", <<"l", "i", "m", "i", "t">>), One, Semi>>

\* SELECT * FROM a ; with the datasource written without a colon
SelectNoColon ==
    <<Word("SELECT"), Tk("TIMES", cStar), Word("FROM"), Tk("DATASOURCE", pA), Semi>>

Sentences ==
    {InsertOne, InsertRows, InsertTooWide, InsertQuoted(pQuote), InsertQuoted(pPlus),
     UpdateOne, UpdateTwo, UpdateThree, DeleteAll, SelectSumStar, SelectFull,
     SelectNoColon}

\* the tokens of a sentence, all on line 1, the i-th token at position
\* 2 * (i - 1)
Placed(s) == [i \in 1..Len(s) |-> Token(s[i][1], s[i][2], 1, 2 * (i - 1))]

\* every stream of at most MaxTokens tokens of the enumerated types, and the
\* sentences above with every stream that one of them starts with
TokenStreams ==
    {Placed([i \in 1..Len(types) |-> <<types[i], TokenValue(types[i])>>]) :
        types \in SeqsUpTo(TokenTypes, MaxTokens)}
    \cup
    UNION {{Placed(SubSeq(s, 1, n)) : n \in 1..Len(s)} : s \in Sentences}

---------------------------------------------------------------------------
(* Compiling a statement and running its plan *)

\* the parser reduces the symbols of a SELECT, the select list before the
\* statement as a whole: an exception raised while reducing the select list
\* ends the parse, otherwise p_select generates the code
Compile(s) ==
    /\ pc = "idle" /\ IsNone(stmt)
    /\ stmt' = s
    /\ LET parsed == ParseSelectColumns(s.select_columns)
           r == IF parsed # "none" THEN [err |-> parsed, code |-> <<>>]
                ELSE p_select(s)
       IN /\ plan' = r.code
          /\ err' = r.err
          /\ raised' = IF parsed # "none" THEN ParserError(PyStr(<<"*">>), 0 - 1, 0 - 1).args
                        ELSE raised
    /\ UNCHANGED <<transformed_data, pc, call, data,
                   are_select_columns_aggregation, ret, stages, ip, env, log,
                   queries>>

\* a statement reaches the select rule: its tokens matched the grammar
CompileAny ==
    /\ IsNone(stmt) /\ IsNone(tokens)
    /\ \E s \in StatementSet : Compile(s) /\ UNCHANGED tokens

\* the parser ends with the outcome r; e is what p_error raises when the
\* parser calls it
ParserEnds(r, e) ==
    CASE r.kind = "accept" /\ ~IsNone(r.value) ->
            /\ stmt' = r.value.stmt
            /\ plan' = r.value.code
            /\ UNCHANGED <<err, raised>>
      [] r.kind = "accept" /\ IsNone(r.value) ->
            UNCHANGED <<stmt, plan, err, raised>>
      [] r.kind = "p_error" ->
            /\ err' = e.err
            /\ raised' = e.args
            /\ UNCHANGED <<stmt, plan>>
      [] OTHER ->
            /\ err' = r.err
            /\ raised' = r.args
            /\ UNCHANGED <<stmt, plan>>

\* the parser is handed a token stream.  A stream that is a statement is
\* reduced to the value of the statement: the code generated for a SELECT or
\* an INSERT, None for an UPDATE or a DELETE.  At the first token that cannot
\* continue a statement, or at the end of a stream that stops early, the
\* parser calls p_error, with the token or with None.  An exception raised
\* by an action ends the parse
Parse(ts) ==
    /\ pc = "idle" /\ IsNone(stmt) /\ IsNone(tokens)
    /\ tokens' = TokenStream(ts)
    /\ ParserEnds(ParseTokens(ts), p_error(ErrorToken(ts)))
    /\ UNCHANGED <<transformed_data, pc, call, data, are_select_columns_aggregation,
                   ret, stages, ip, env, log, queries>>

ParseAny ==
    /\ IsNone(stmt) /\ IsNone(tokens)
    /\ \E ts \in TokenStreams : Parse(ts)

\* the statement parsed is a SELECT
IsSelect == stmt.t = "select"

\* the code is compiled with outcome c: its first statement is next, or the
\* exception ends the run
Compiled(c) ==
    /\ c # "unmodelled"
    /\ IF c = "ok" THEN ip' = 1 /\ UNCHANGED err ELSE err' = c /\ UNCHANGED ip

\* the caller runs the generated code: it is compiled as a whole first
StartExec ==
    /\ pc = "idle" /\ ~IsNone(stmt) /\ ip = 0 /\ err = "none" /\ log = <<>>
    /\ plan # <<>> /\ Compiled(CompileResult(plan))
    /\ UNCHANGED <<transformed_data, pc, call, data,
                   are_select_columns_aggregation, ret, stages, stmt, plan, env, log,
                   tokens, raised, queries>>

Running == pc = "idle" /\ err = "none" /\ ip \in 1..Len(plan)

\* evaluating the arguments of the statement, or binding them to the
\* parameters of the function, raises TypeError: the function is not entered
RaisesTypeError ==
    /\ call' = [op |-> "arguments", of |-> plan[ip].op]
    /\ ret' = NoReturn
    /\ err' = "TypeError"
    /\ pc' = "done"
    /\ UNCHANGED <<transformed_data, data, are_select_columns_aggregation, stages,
                   planVars>>

\* `target = etl.extract('type', 'path')`
ExecExtract ==
    /\ Running /\ plan[ip].op = "extract"
    /\ IF ~TwoArgs(plan[ip]) THEN RaisesTypeError
       ELSE
        /\ LET type == CallArgs(plan[ip]).args[1].s
               path == CallArgs(plan[ip]).args[2].s
               r == extract(type, path)
           IN /\ call' = [op |-> "extract", type |-> type, path |-> path]
              /\ ret' = r.ret
              /\ err' = r.err
        /\ pc' = "done"
        /\ UNCHANGED <<transformed_data, data, are_select_columns_aggregation, stages,
                       planVars>>

\* `extracted_data = etl.join(extracted_data, join_df_i, 'l', 'r', how=kind)`
ExecJoin ==
    /\ Running /\ plan[ip].op = "join"
    /\ IF ~TwoArgs(plan[ip]) THEN RaisesTypeError
       ELSE Join(env[plan[ip].left], env[plan[ip].right],
                 CallArgs(plan[ip]).args[1].s, CallArgs(plan[ip]).args[2].s,
                 plan[ip].how)

\* `transformed_data = etl.transform_select(extracted_data, {...})`
ExecTransform ==
    /\ Running /\ plan[ip].op = "transform_select"
    /\ CallTransformSelect(env[plan[ip].arg], plan[ip].criteria)

\* `etl.load(transformed_data, 'type', 'path')`
ExecLoad ==
    /\ Running /\ plan[ip].op = "load"
    /\ IF ~TwoArgs(plan[ip]) THEN RaisesTypeError
       ELSE
        /\ LET type == CallArgs(plan[ip]).args[1].s
               path == CallArgs(plan[ip]).args[2].s
               r == load(env[plan[ip].arg], type, path)
           IN /\ call' = [op |-> "load", data |-> env[plan[ip].arg], type |-> type,
                          path |-> path]
              /\ ret' = r.ret
              /\ err' = r.err
        /\ pc' = "done"
        /\ UNCHANGED <<transformed_data, data, are_select_columns_aggregation, stages,
                       planVars>>

\* the widest row of the rows of an INSERT
RowWidth(values) ==
    LET w == {Len(values.items[i].items) : i \in 1..Len(values.items)}
    IN CHOOSE n \in w : \A k \in w : k <= n

\* the code of an INSERT, yacc.py:274-278: the destination is evaluated (a
\* unary plus on a str raises TypeError), pd.DataFrame raises ValueError
\* when column names are given and their number is not the width of the
\* rows, and etl.load, which has three parameters, is called with two
\* arguments and raises TypeError
InsertOutcome(st) ==
    IF \E a \in Range(CallArgs(st).args) : a.err # "none"
    THEN "TypeError"
    ELSE IF ~IsNone(st.columns) /\ Len(st.columns.items) # RowWidth(st.values)
    THEN "ValueError"
    ELSE "TypeError"

\* `values = ...`, `data_destination = '...'`, `data = pd.DataFrame(...)`,
\* `etl.load(data, data_destination)`: the run ends with an exception before
\* any function of core.py is entered
ExecInsert ==
    /\ Running /\ plan[ip].op = "insert"
    /\ call' = [op |-> "arguments", of |-> plan[ip].op]
    /\ ret' = NoReturn
    /\ err' = InsertOutcome(plan[ip])
    /\ pc' = "done"
    /\ UNCHANGED <<transformed_data, data, are_select_columns_aggregation, stages,
                   planVars>>

\* the call of the current statement is over: its value is bound to the
\* statement's target and the next statement is reached, or its exception
\* ends the run
ExecReturn ==
    /\ pc = "done" /\ ip \in 1..Len(plan)
    /\ call.op \in {"arguments", "extract", "join", "transform_select", "load"}
    /\ log' = Append(log, [call |-> call, ret |-> ret, err |-> err])
    /\ IF err # "none"
       THEN UNCHANGED <<ip, env>>
       ELSE /\ ip' = ip + 1
            /\ env' = IF plan[ip].op = "load" THEN env
                      ELSE [v \in DOMAIN env \cup {plan[ip].target} |->
                                IF v = plan[ip].target THEN ret ELSE env[v]]
    /\ pc' = "idle"
    /\ call' = NoCall
    /\ ret' = NoReturn
    /\ data' = NoneVal
    /\ are_select_columns_aggregation' = FALSE
    /\ stages' = <<>>
    /\ UNCHANGED <<transformed_data, err, stmt, plan, tokens, raised, queries>>

\* the run of the generated code is over, at its end or at an exception
StatementOver ==
    /\ pc = "idle" /\ ~IsNone(stmt) /\ plan # <<>>
    /\ (err # "none" \/ ip = Len(plan) + 1)

\* the caller of the statement reads the slot once the run is over
CallerReadsBack == StatementOver /\ get_transformed_data

NextPlan ==
    \/ ParseAny
    \/ CompileAny
    \/ StartExec
    \/ ExecExtract
    \/ ExecJoin
    \/ ExecTransform
    \/ Filter
    \/ PreGroupOrder
    \/ GroupOrProject
    \/ Distinct
    \/ LimitOrTailStage
    \/ StoreAndReturn
    \/ ExecLoad
    \/ ExecInsert
    \/ ExecReturn
    \/ CallerReadsBack

SpecPlan == Init /\ [][NextPlan]_vars

---------------------------------------------------------------------------
(* Claims about transform_select *)

IsTransformCall == call.op = "transform_select"
IsJoinCall == call.op = "join"

C1_Rank(p) ==
    CASE p = "filter" -> 1
      [] p = "order" -> 2
      [] p = "group_or_project" -> 3
      [] p = "distinct" -> 4
      [] p = "limit" -> 5
      [] p = "store" -> 6
      [] OTHER -> 7

\* the five stages composed in the claimed order, each on the output of the
\* one before it
C1_Pipeline(d, c) ==
    LET agg == AreSelectColumnsAggregation(c)
        s1 == IF RunsFilter(c) THEN StageFilter(d, c).df ELSE d
        s2 == IF RunsOrder(c, agg) THEN StageOrderBy(s1, c).df ELSE s1
        s3 == IF RunsGroupOrProject(c) THEN StageGroupOrProject(s2, c, agg).df ELSE s2
        s4 == IF RunsDistinct(c) THEN StageDistinct(s3).df ELSE s3
        s5 == IF RunsLimit(c) THEN StageLimit(s4, c.LIMIT_OR_TAIL).df ELSE s4
    IN s5

\* the stages whose guard holds for a bundle, in the claimed order
C1_Expected(c) ==
    (IF RunsFilter(c) THEN <<"filter">> ELSE <<>>) \o
    (IF RunsOrder(c, AreSelectColumnsAggregation(c)) THEN <<"order">> ELSE <<>>) \o
    (IF RunsGroupOrProject(c) THEN <<"group_or_project">> ELSE <<>>) \o
    (IF RunsDistinct(c) THEN <<"distinct">> ELSE <<>>) \o
    (IF RunsLimit(c) THEN <<"limit">> ELSE <<>>)

C1_Step ==
    (IsTransformCall /\ pc' # pc) =>
        \/ C1_Rank(pc') = C1_Rank(pc) + 1
        \/ pc' = "done" /\ err' # "none"

C1_Inv ==
    /\ \A i, j \in 1..Len(stages) : i < j => C1_Rank(stages[i]) < C1_Rank(stages[j])
    /\ (IsTransformCall /\ pc = "done" /\ err = "none") =>
            /\ stages = C1_Expected(call.criteria)
            /\ ret = C1_Pipeline(call.data, call.criteria)

\* C1: transform_select runs its stages in one fixed order for every criteria
\* bundle: filter, pre-group ordering, grouping or projection/aggregation,
\* distinct, limit/tail.  Control only ever moves to the next stage of that
\* order (or out with an exception), no stage runs twice, and the relation
\* returned is the composition of the stages in that order, each applied to
\* the output of the one before.
C1_FixedStageOrder == [][C1_Step]_vars /\ []C1_Inv

\* all five stages ran, in order, and the call returned
C1_Witness ==
    /\ IsTransformCall /\ pc = "done" /\ err = "none"
    /\ stages = <<"filter", "order", "group_or_project", "distinct", "limit">>
    /\ Len(call.data.rows) = 2
    /\ Len(ret.rows) = 1

\* C5: transform_select called with an absent relation fails with NullInput
\* for every criteria bundle, before any stage runs, and returns nothing.
C5_NullInput ==
    (IsTransformCall /\ IsNone(call.data)) =>
        /\ pc = "done"
        /\ err = "NullInput"
        /\ stages = <<>>
        /\ ret = NoReturn
        /\ transformed_data = NoneVal

\* the call with an absent relation and a bundle that asks for every stage
C5_Witness ==
    /\ IsTransformCall /\ IsNone(call.data) /\ pc = "done"
    /\ call.criteria.FILTER # NoneVal
    /\ call.criteria.ORDER # NoneVal
    /\ call.criteria.DISTINCT
    /\ call.criteria.LIMIT_OR_TAIL # NoneVal

C6_Step ==
    LET lt == call.criteria.LIMIT_OR_TAIL
        n == lt.number.v
        r == Len(data.rows)
        m == IF n < r THEN n ELSE r
    IN (/\ IsTransformCall /\ pc = "limit" /\ pc' # pc
        /\ lt.t = "tuple"
        /\ lt.number.t = "int"
        /\ n >= 0
        /\ lt.operator \in {"limit", "tail"}) =>
            /\ pc' = "store"
            /\ err' = "none"
            /\ data'.cols = data.cols
            /\ Len(data'.rows) = m
            /\ \A i \in 1..m :
                  data'.rows[i] = IF lt.operator = "limit" THEN data.rows[i]
                                  ELSE data.rows[r - m + i]

\* C6: on a relation of r rows and an integer n >= 0 the limit/tail stage
\* gives the first min(n, r) rows for limit and the last min(n, r) rows for
\* tail, in unchanged order and with the columns unchanged (n = 0: no rows,
\* same columns; tail with n >= r: the whole relation).
C6_LimitTail == [][C6_Step]_vars

\* tail 1 of two different rows returned the second one
C6_Witness ==
    /\ IsTransformCall /\ pc = "done" /\ err = "none"
    /\ call.criteria.LIMIT_OR_TAIL = LimitOrTail("tail", PyInt(1))
    /\ stages = <<"limit">>
    /\ Len(call.data.rows) = 2
    /\ call.data.rows[1] # call.data.rows[2]
    /\ ret = DataFrame(call.data.cols, <<call.data.rows[2]>>)

\* the n the claim is about: negative, or not an int
C7_BadNumber(n) == n.t # "int" \/ n.v < 0

\* a call of transform_select on a relation, with a limit_or_tail whose n is
\* negative or not an integer
C7_Case ==
    /\ IsTransformCall
    /\ ~IsNone(call.data)
    /\ call.criteria.LIMIT_OR_TAIL.t = "tuple"
    /\ C7_BadNumber(call.criteria.LIMIT_OR_TAIL.number)

\* C7 as stated: when limit_or_tail = (kind, n) is present and n is negative
\* or not an integer, transform_select fails with InvalidLimit and returns no
\* relation, for both kinds.
C7_Original ==
    C7_Case =>
        /\ ret = NoReturn
        /\ pc = "done" => err = "InvalidLimit"

\* C7 amended: when limit_or_tail = (kind, n) is present and n is negative or
\* not an integer, transform_select returns no relation and leaves the slot
\* alone, whatever the kind; n is checked when the limit/tail stage is
\* reached, so the call fails with InvalidLimit exactly when the stages
\* before it succeed, and with the failure of the first stage that fails
\* otherwise.
C7_InvalidLimit ==
    C7_Case =>
        /\ pc # "store"
        /\ ret = NoReturn
        /\ transformed_data = NoneVal
        /\ pc = "done" =>
              /\ err # "none"
              /\ err = "InvalidLimit" <=> "limit" \in Range(stages)
        /\ "limit" \in Range(stages) => pc = "done"

\* TAIL with a float n reached the stage and failed there
C7_Witness ==
    /\ IsTransformCall /\ pc = "done" /\ err = "InvalidLimit"
    /\ call.criteria.LIMIT_OR_TAIL = LimitOrTail("tail", PyFloat(15))
    /\ stages = <<"filter", "order", "distinct", "limit">>
    /\ ret = NoReturn

---------------------------------------------------------------------------
(* Claims about join *)

JoinInputsPresent == ~IsNone(call.df1) /\ ~IsNone(call.df2)
JoinKindValid == call.how \in {"inner", "left", "right", "outer"}
NoRows(df) == df.rows = <<>>

\* C2: for every valid kind, join on empty inputs follows the short-circuit
\* table: both empty gives an empty result; left empty gives an empty result
\* for inner/left and a copy of right for right/outer; right empty gives an
\* empty result for inner/right and a copy of left for left/outer.
C2_EmptyInputs ==
    (IsJoinCall /\ JoinKindValid /\ JoinInputsPresent
        /\ (NoRows(call.df1) \/ NoRows(call.df2))) =>
        /\ err = "none"
        /\ transformed_data = ret
        /\ IF NoRows(call.df1) /\ NoRows(call.df2) THEN NoRows(ret)
           ELSE IF NoRows(call.df1)
                THEN IF call.how \in {"inner", "left"} THEN NoRows(ret)
                     ELSE ret = call.df2
           ELSE IF call.how \in {"inner", "right"} THEN NoRows(ret)
                ELSE ret = call.df1

\* Scenario E: a left join whose right side has columns and no rows returned
\* the left relation
C2_Witness ==
    /\ IsJoinCall /\ pc = "done" /\ call.how = "left"
    /\ JoinInputsPresent
    /\ Len(call.df1.rows) = 2
    /\ call.df2 = DataFrame(<<cB, cG>>, <<>>)
    /\ call.left_col = cA /\ call.right_col = cB
    /\ ret = call.df1

\* C3: join with a kind outside {inner, left, right, outer} fails with
\* InvalidJoinKind whatever the inputs (non-empty, empty or absent) and the
\* column names are; it returns no relation and takes no short-circuit.
C3_InvalidJoinKind ==
    (IsJoinCall /\ ~JoinKindValid) =>
        /\ err = "InvalidJoinKind"
        /\ ret = NoReturn
        /\ transformed_data = NoneVal

\* the kind "full" with an absent left input and an empty right input
C3_Witness ==
    /\ IsJoinCall /\ pc = "done" /\ call.how = "full"
    /\ IsNone(call.df1)
    /\ call.df2 = NewDataFrame
    /\ err = "InvalidJoinKind"

C4_ColumnMissing ==
    \/ call.left_col \notin Range(call.df1.cols)
    \/ call.right_col \notin Range(call.df2.cols)

\* C4 as stated: join fails with MissingJoinColumn whenever left_col is not a
\* column of left or right_col is not a column of right, for every valid kind
\* and every pair of inputs, including inputs that have no rows.
C4_Original ==
    (IsJoinCall /\ JoinKindValid /\ JoinInputsPresent /\ C4_ColumnMissing) =>
        err = "MissingJoinColumn" /\ ret = NoReturn

\* C4 amended: for every valid kind and every pair of inputs that both have
\* at least one row, join fails with MissingJoinColumn whenever left_col is
\* not a column of left or right_col is not a column of right; when an input
\* has no rows the empty-input short-circuit returns first and the columns
\* are not checked.
C4_MissingJoinColumn ==
    (IsJoinCall /\ JoinKindValid /\ JoinInputsPresent /\ C4_ColumnMissing) =>
        IF NoRows(call.df1) \/ NoRows(call.df2)
        THEN err = "none" /\ ret # NoReturn
        ELSE err = "MissingJoinColumn" /\ ret = NoReturn /\ transformed_data = NoneVal

\* two non-empty inputs, the left column present and the right column absent
C4_Witness ==
    /\ IsJoinCall /\ pc = "done" /\ JoinKindValid
    /\ JoinInputsPresent
    /\ Len(call.df1.rows) = 2 /\ Len(call.df2.rows) = 1
    /\ call.left_col = cA /\ call.right_col = cA
    /\ err = "MissingJoinColumn"

---------------------------------------------------------------------------
(* Claims about the plan *)

\* a plan was built for the statement
Built == IsSelect /\ plan # <<>>
\* the plan ran to its end
Finished == Built /\ ip = Len(plan) + 1 /\ pc = "idle"

StepsOf(op) == {i \in 1..Len(plan) : plan[i].op = op}
\* position in the plan of the n-th statement of a kind
NthStep(op, n) ==
    CHOOSE i \in StepsOf(op) : Cardinality({j \in StepsOf(op) : j <= i}) = n

\* the datasource literal of the n-th source of the statement as written:
\* the FROM source, then the JOIN sources in clause order
WrittenSource(n) ==
    IF n = 1 THEN stmt.table_source.datasource ELSE stmt.joins[n - 1].datasource

CallsOf(op) == SelectSeq(log, LAMBDA e : e.call.op = op)

\* k + 1 extraction steps, the FROM source first, then the JOIN sources in
\* clause order
C8_Extractions ==
    /\ Cardinality(StepsOf("extract")) = Len(stmt.joins) + 1
    /\ \A n \in 1..(Len(stmt.joins) + 1) :
          LET st == plan[NthStep("extract", n)]
          IN Lit(st.type, st.path) = WrittenSource(n)
    /\ \A i \in 1..Len(log) : log[i].call.op = plan[i].op

\* C8: the plan for a SELECT with k JOIN clauses has exactly k+1 extraction
\* steps, the FROM source first and then the JOIN sources in clause order,
\* and every extraction step comes before the first join step.
C8_ExtractionSteps ==
    Built =>
        /\ C8_Extractions
        /\ \A i \in StepsOf("extract"), j \in StepsOf("join") : i < j

\* a statement with two JOIN clauses on different sources ran to its end:
\* the second clause's source was extracted after the first join
C8_Witness ==
    /\ Finished /\ err = "none"
    /\ Len(stmt.joins) = 2
    /\ stmt.joins[1].datasource # stmt.joins[2].datasource
    /\ [i \in 1..6 |-> log[i].call.op] =
          <<"extract", "extract", "join", "extract", "join", "transform_select">>

\* C9: the plan has exactly one join step per JOIN clause, in the order
\* written; the i-th join takes as its left input the relation accumulated
\* from the FROM source and joins 1..i-1, as its right input the relation
\* extracted for the i-th JOIN clause, and that clause's kind and columns.
C9_JoinSteps ==
    Built =>
        /\ Cardinality(StepsOf("join")) = Len(stmt.joins)
        /\ \A n \in 1..Len(stmt.joins) :
              LET st == plan[NthStep("join", n)]
              IN /\ st.how = stmt.joins[n].type
                 /\ ~IsComposite(stmt.joins[n].on) =>
                        /\ st.left_col = stmt.joins[n].on.left
                        /\ st.right_col = stmt.joins[n].on.right
        /\ \A n \in 1..Len(CallsOf("join")) :
              LET j == CallsOf("join")[n]
                  x == CallsOf("extract")[n + 1]
                  xs == plan[NthStep("extract", n + 1)]
              IN /\ j.call.how = stmt.joins[n].type
                 /\ Lit(xs.type, xs.path) = stmt.joins[n].datasource
                 /\ x.call.type = CallArgs(xs).args[1].s
                 /\ x.call.path = CallArgs(xs).args[2].s
                 /\ j.call.df2 = x.ret
                 /\ j.call.df1 = IF n = 1 THEN CallsOf("extract")[1].ret
                                 ELSE CallsOf("join")[n - 1].ret

\* two joins of different kinds on different sources ran: the second one took
\* the first one's result on its left
C9_Witness ==
    /\ Finished /\ err = "none"
    /\ Len(stmt.joins) = 2
    /\ stmt.joins[1].type = "left" /\ stmt.joins[2].type = "inner"
    /\ stmt.joins[1].datasource # stmt.joins[2].datasource
    /\ Len(CallsOf("join")) = 2
    /\ CallsOf("join")[2].call.df1 = CallsOf("join")[1].ret
    /\ CallsOf("join")[2].call.df1 # CallsOf("extract")[1].ret

\* C10: every plan has exactly one transform step, after all the join steps
\* and fed the accumulated relation; it has a load step if and only if INTO
\* was given, and that load step is the last step and receives the relation
\* the transform step returned.
C10_TransformAndLoad ==
    Built =>
        /\ Cardinality(StepsOf("transform_select")) = 1
        /\ \A i \in StepsOf("extract") \cup StepsOf("join") :
              i < NthStep("transform_select", 1)
        /\ (StepsOf("load") # {}) <=> ~IsNone(stmt.into)
        /\ StepsOf("load") \subseteq {Len(plan)}
        /\ \A i \in 1..Len(log) :
              /\ log[i].call.op = "transform_select" =>
                    /\ i = Len(stmt.joins) * 2 + 2
                    /\ log[i].call.data = log[i - 1].ret
                    /\ log[i - 1].call.op =
                          IF Len(stmt.joins) = 0 THEN "extract" ELSE "join"
              /\ log[i].call.op = "load" =>
                    /\ log[i - 1].call.op = "transform_select"
                    /\ log[i].call.data = log[i - 1].ret
                    /\ Lit(log[i].call.type, log[i].call.path) = stmt.into.s

\* a statement whose INTO literal has an empty path ran to its end without
\* a load
C10_Witness ==
    /\ Finished /\ err = "none"
    /\ stmt.into = PyStr(Lit(tCsv, <<>>))
    /\ Len(stmt.joins) = 1
    /\ [i \in 1..Len(log) |-> log[i].call.op] =
          <<"extract", "extract", "join", "transform_select">>

---------------------------------------------------------------------------
(* Claims about aliases *)

\* the aliases a statement declares, in the order written: the FROM source's,
\* then each JOIN source's
DeclaredAliases(s) ==
    LET all == <<s.table_source.alias>> \o [i \in 1..Len(s.joins) |-> s.joins[i].alias]
    IN SelectSeq(all, LAMBDA a : ~IsNone(a))

HasDuplicateAlias(s) ==
    \E i, j \in 1..Len(DeclaredAliases(s)) :
        i < j /\ DeclaredAliases(s)[i] = DeclaredAliases(s)[j]

\* C11: building a plan for a statement in which the same table alias is
\* declared twice (on the FROM source and a JOIN source, or on two JOIN
\* sources) fails with an error; no plan is produced.
C11_DuplicateAlias ==
    (IsSelect /\ HasDuplicateAlias(stmt)) =>
        /\ plan = <<>>
        /\ err # "none"

\* a statement whose FROM source and both JOIN sources declare the alias u
\* was compiled and its plan ran to the end: the mapping kept the last one
C11_Witness ==
    /\ Finished /\ err = "none"
    /\ Len(stmt.joins) = 2
    /\ DeclaredAliases(stmt) = <<PyStr(<<"u">>), PyStr(<<"u">>), PyStr(<<"u">>)>>
    /\ AliasMapping(stmt) = [a \in {<<"u">>} |-> JoinVar(1)]
    /\ Len(log) >= 6

\* a qualified column alias.column: the text before its first "." and the
\* text after it
IsQualified(ref) == IndexOf(ref, ".") > 0
QualifierOf(ref) == SubSeq(ref, 1, IndexOf(ref, ".") - 1)
ColumnOf(ref) == SubSeq(ref, IndexOf(ref, ".") + 1, Len(ref))

\* the n-th JOIN clause has a condition a.x = b.y on two declared aliases,
\* one of them the clause's own
C12_Case(n) ==
    LET cl == stmt.joins[n]
    IN /\ ~IsComposite(cl.on)
       /\ IsQualified(cl.on.left) /\ IsQualified(cl.on.right)
       /\ {PyStr(QualifierOf(cl.on.left)), PyStr(QualifierOf(cl.on.right))}
             \subseteq Range(DeclaredAliases(stmt))
       /\ ~HasDuplicateAlias(stmt)
       /\ ~IsNone(cl.alias)
       /\ cl.alias.s \in {QualifierOf(cl.on.left), QualifierOf(cl.on.right)}
       /\ QualifierOf(cl.on.left) # QualifierOf(cl.on.right)

\* C12: for a JOIN clause whose ON condition is a.x = b.y with a and b
\* declared aliases, the emitted join step matches column x of the relation
\* aliased a against column y of the relation aliased b: the column passed
\* for the right input is the one qualified by the clause's own alias and
\* the column passed for the left input the other one, whichever side of the
\* '=' each was written on.
C12_QualifiedOn ==
    Built =>
        \A n \in 1..Len(stmt.joins) :
            C12_Case(n) =>
                LET cl == stmt.joins[n]
                    st == plan[NthStep("join", n)]
                    own == IF QualifierOf(cl.on.left) = cl.alias.s
                           THEN cl.on.left ELSE cl.on.right
                    other == IF QualifierOf(cl.on.left) = cl.alias.s
                             THEN cl.on.right ELSE cl.on.left
                IN /\ AliasMapping(stmt)[QualifierOf(own)] = st.right
                   /\ CallArgs(st).args[2].s = ColumnOf(own)
                   /\ CallArgs(st).args[1].s = ColumnOf(other)

\* FROM a AS t JOIN c:d AS u ON t.g = u.c ran: the join was handed the texts
\* "t.g" and "u.c" as column names and failed on the first
C12_Witness ==
    /\ IsSelect /\ Len(stmt.joins) = 1 /\ C12_Case(1)
    /\ stmt.joins[1].on.left = <<"t", ".", "g">>
    /\ IsJoinCall /\ pc = "done"
    /\ call.left_col = <<"t", ".", "g">> /\ call.right_col = <<"u", ".", "c">>
    /\ cG \in Range(call.df1.cols) /\ cC \in Range(call.df2.cols)
    /\ err = "MissingJoinColumn"

---------------------------------------------------------------------------
(* Claims about the parser *)

\* the select list of the statement applies to the wildcard an aggregation
\* function other than size
HasWildcardAggregation(s) ==
    /\ s.select_columns # AllColumns
    /\ \E i \in 1..Len(s.select_columns.items) :
          /\ s.select_columns.items[i].t = "tuple"
          /\ s.select_columns.items[i].col = cStar
          /\ s.select_columns.items[i].func # FnSize

\* the token stream opens with SELECT f ( * ) for a function f other than
\* size, followed by a token that can follow an item of the select list
C13_TokensOnWildcard(ts) ==
    /\ Len(ts) >= 6
    /\ [i \in 1..5 |-> ts[i].type] =
          <<"SELECT", "AGGREGATION_FUNCTION", "LPAREN", "TIMES", "RPAREN">>
    /\ ts[2].value # PyStr(FnSize)
    /\ ts[6].type \in {"COMMA", "INTO", "FROM"}

\* C13: parsing a select list that applies an aggregation function to the
\* wildcard fails with a syntax error unless the function is size; the
\* rejection happens at parse time, so no plan is produced and nothing runs.
C13_WildcardAggregation ==
    /\ IsSelect =>
          IF HasWildcardAggregation(stmt)
          THEN /\ plan = <<>> /\ err = "SyntaxError"
               /\ log = <<>> /\ pc = "idle" /\ ip = 0
          ELSE plan # <<>>
    /\ (~IsNone(tokens) /\ C13_TokensOnWildcard(tokens.items)) =>
          /\ err = "SyntaxError"
          /\ raised = [t |-> "ParserError", token |-> PyStr(cStar), line |-> 0 - 1,
                       column |-> 0 - 1]
          /\ IsNone(stmt) /\ plan = <<>> /\ log = <<>> /\ pc = "idle" /\ ip = 0

\* SELECT size(*), sum(*) FROM a JOIN b ... was rejected: no plan
C13_Witness ==
    /\ IsSelect
    /\ stmt.select_columns =
          PyList(<<PyTuple(FnSize, cStar), PyTuple(FnSum, cStar)>>)
    /\ Len(stmt.joins) = 1
    /\ err = "SyntaxError" /\ plan = <<>> /\ log = <<>>

\* the parser was handed a token stream that is not a statement
C14_Case == ~IsNone(tokens) /\ ErrorPos(tokens.items) # 0

\* C14: for every token stream that does not match the grammar, including
\* one that ends before the statement is complete, parse fails with
\* SyntaxError carrying the offending token, line and column, and with no
\* other kind of failure; no statement and no plan result.
C14_SyntaxError ==
    C14_Case =>
        LET ts == tokens.items
            k == ErrorPos(ts)
        IN /\ err = "SyntaxError"
           /\ ~IsNone(raised)
           /\ k <= Len(ts) =>
                 raised = [t |-> "ParserError", token |-> ts[k].value,
                           line |-> ts[k].lineno, column |-> ts[k].lexpos]
           /\ IsNone(stmt) /\ plan = <<>>

\* SELECT * FROM with nothing after it: the parser reported the end of the
\* input and p_error failed with AttributeError
C14_Witness ==
    /\ ~IsNone(tokens)
    /\ [i \in 1..Len(tokens.items) |-> tokens.items[i].type] = <<"SELECT", "TIMES", "FROM">>
    /\ ErrorPos(tokens.items) = 4
    /\ err = "AttributeError"
    /\ IsNone(raised) /\ IsNone(stmt) /\ plan = <<>>

---------------------------------------------------------------------------
(* Claims about grouping and projection *)

\* the group keys and the selected columns of the criteria resolve against df
\* and some selected column that is not an aggregation resolves to a name
\* outside the resolved group-key set
C15_Case(df, criteria) ==
    /\ Truthy(criteria.GROUP)
    /\ LET keys == group_by_columns_names(df, criteria.GROUP)
           sel == convert_select_column_indices_to_name(df, criteria.COLUMNS)
       IN /\ FirstErr(keys) = "none"
          /\ FirstErr([i \in 1..Len(sel) |-> sel[i].r]) = "none"
          /\ \E i \in 1..Len(sel) :
                /\ ~sel[i].agg
                /\ sel[i].r.name \notin {keys[j].name : j \in 1..Len(keys)}

C15_Step ==
    (IsTransformCall /\ pc = "group_or_project" /\ pc' # pc
     /\ C15_Case(data, call.criteria)) =>
        /\ pc' = "done"
        /\ err' = "ColumnNotInGroupBy"
        /\ data' = data
        /\ ret' = NoReturn
        /\ transformed_data' = transformed_data

\* C15: with a GROUP BY present, transform_select fails with
\* ColumnNotInGroupBy whenever some selected column that is not an
\* aggregation resolves to a name outside the resolved group-key set; the
\* check is made when the group stage is reached, before any grouping or
\* ordering of the grouped result, so no failure of those comes first and
\* the relation is left as the filter stage gave it.
C15_ColumnNotInGroupBy == [][C15_Step]_vars

\* SELECT [1] ... WHERE v >= 1 GROUP BY [0], g ORDER BY g, [1] DESC on a
\* relation (g, v): [1] is v, no group key, and ordering the grouped result
\* by g could not succeed
C15_Witness ==
    /\ IsTransformCall /\ pc = "done" /\ err = "ColumnNotInGroupBy"
    /\ call.criteria.COLUMNS = PyList(<<PyStr(Idx1)>>)
    /\ call.criteria.GROUP = PyList(<<PyStr(Idx0), PyStr(cG)>>)
    /\ Truthy(call.criteria.ORDER) /\ Len(call.criteria.ORDER.parameters) = 2
    /\ stages = <<"filter", "group_or_project">>
    /\ Len(call.data.rows) = 2 /\ Len(data.rows) = 1
    /\ ret = NoReturn

\* the select list of the call, when it is not the wildcard
C16_Items == IF call.criteria.COLUMNS = AllColumns THEN <<>> ELSE call.criteria.COLUMNS.items
C16_Aggregations == {i \in 1..Len(C16_Items) : C16_Items[i].t = "tuple"}
C16_Plain == {i \in 1..Len(C16_Items) : C16_Items[i].t # "tuple"}

\* the group / projection stage of a call without GROUP BY is taken
C16_StepWithoutGroup ==
    /\ IsTransformCall /\ pc = "group_or_project" /\ pc' # pc
    /\ ~Truthy(call.criteria.GROUP)
    /\ call.criteria.COLUMNS # AllColumns

C16_Mixed ==
    (C16_StepWithoutGroup /\ C16_Aggregations # {} /\ C16_Plain # {}) =>
        /\ pc' = "done" /\ err' = "MixedAggregationWithoutGroup"
        /\ data' = data /\ ret' = NoReturn

C16_OnlyAggregations ==
    (C16_StepWithoutGroup /\ C16_Aggregations # {} /\ C16_Plain = {}) =>
        /\ err' # "MixedAggregationWithoutGroup"
        /\ (\A i \in C16_Aggregations :
                C16_Items[i].col \in Range(data.cols) \cup {cStar}) =>
              /\ err' = "none" /\ pc' = StageAfter("group_or_project")
              /\ Len(data'.rows) = 1
              /\ Len(data'.cols) = Len(C16_Items)

C16_NoAggregation ==
    (C16_StepWithoutGroup /\ C16_Aggregations = {} /\ C16_Plain # {}) =>
        /\ err' # "MixedAggregationWithoutGroup"
        /\ (\A i \in C16_Plain : C16_Items[i].s \in Range(data.cols)) =>
              /\ err' = "none" /\ pc' = StageAfter("group_or_project")
              /\ data'.cols = [i \in 1..Len(C16_Items) |-> C16_Items[i].s]
              /\ Len(data'.rows) = Len(data.rows)

\* C16: without GROUP BY, a select list that contains at least one
\* aggregation and at least one plain column is rejected with
\* MixedAggregationWithoutGroup; a list made only of aggregations is accepted
\* (one row, one column per aggregation) and a list with no aggregation is
\* projected (the named columns, every row kept).
C16_MixedAggregation ==
    [][C16_Mixed /\ C16_OnlyAggregations /\ C16_NoAggregation]_vars

\* SELECT g, sum(v) without GROUP BY on a relation of two rows
C16_Witness ==
    /\ IsTransformCall /\ pc = "done" /\ err = "MixedAggregationWithoutGroup"
    /\ call.criteria.COLUMNS = PyList(<<PyStr(cG), PyTuple(FnSum, cV)>>)
    /\ ~Truthy(call.criteria.GROUP)
    /\ Len(call.data.rows) = 2
    /\ stages[Len(stages)] = "group_or_project"
    /\ ret = NoReturn

\* the group / projection stage of a call without GROUP BY and without
\* aggregation is taken
C17_ProjectionStep ==
    /\ C16_StepWithoutGroup
    /\ C16_Aggregations = {}

\* the items of the select list written as a positional index "[n]", and
\* the number n the digits between the brackets write
C17_Indexed == {i \in C16_Plain : is_column_number(C16_Items[i].s)}
C17_Index(i) == Number(NumeralDigits(Inner(C16_Items[i].s)))

\* the index is written with no more digits than int() converts
C17_Short(i) == Len(C16_Items[i].s) <= 4302

C17_OutOfRange ==
    (C17_ProjectionStep /\ \E i \in C17_Indexed : C17_Index(i) >= Len(data.cols)) =>
        /\ pc' = "done" /\ err' = "ColumnIndexOutOfRange"
        /\ data' = data /\ ret' = NoReturn

C17_InRange ==
    (/\ C17_ProjectionStep
     /\ C17_Indexed # {}
     /\ \A i \in C17_Indexed : C17_Index(i) \in 0..(Len(data.cols) - 1)
     /\ \A i \in C16_Plain \ C17_Indexed : C16_Items[i].s \in Range(data.cols)) =>
        /\ err' = "none" /\ pc' = StageAfter("group_or_project")
        /\ \A i \in C17_Indexed :
              /\ data'.cols[i] = data.cols[C17_Index(i) + 1]
              /\ \A r \in 1..Len(data.rows) :
                    data'.rows[r][i] = data.rows[r][C17_Index(i) + 1]

\* C17: in a projection without GROUP BY and without aggregation, a
\* positional column index that is not below the relation's column count
\* fails with ColumnIndexOutOfRange, and an index in range resolves to the
\* column at that 0-based position of the relation as it stands at that stage.
C17_ColumnIndex == [][C17_OutOfRange /\ C17_InRange]_vars

\* SELECT with the index 0 written with 4301 digits, on a relation (g, v):
\* int() at core.py:88 refuses the digits and the call ends in ValueError
C17_Witness ==
    /\ IsTransformCall /\ pc = "done" /\ err = "ValueError"
    /\ call.criteria.COLUMNS = PyList(<<PyStr(IdxLong)>>)
    /\ ~Truthy(call.criteria.GROUP) /\ IsNone(call.criteria.FILTER)
    /\ call.data.cols = <<cG, cV>> /\ Len(call.data.rows) = 2
    /\ stages[Len(stages)] = "group_or_project"
    /\ ret = NoReturn

\* the two halves hold of every projection whose indexes are written with
\* at most 4300 digits
C17_ShortIndexes ==
    [][(C17_ProjectionStep /\ \A i \in C17_Indexed : C17_Short(i)) =>
           (C17_OutOfRange /\ C17_InRange)]_vars

\* SELECT [1], [0] on a relation (g, v) whose rows differ in the two columns
\* gives (v, g)
C17_Swapped ==
    /\ IsTransformCall /\ pc = "done" /\ err = "none"
    /\ call.criteria.COLUMNS = PyList(<<PyStr(Idx1), PyStr(Idx0)>>)
    /\ ~Truthy(call.criteria.GROUP) /\ IsNone(call.criteria.FILTER)
    /\ call.data.rows = << <<0, 1>>, <<1, 0>> >>
    /\ ret.cols = <<cV, cG>>
    /\ \E r \in 1..Len(ret.rows) : ret.rows[r] = <<1, 0>>

\* a call that returned, for a select of named columns without aggregation,
\* GROUP BY, DISTINCT and LIMIT / TAIL
C18_Case ==
    /\ IsTransformCall /\ pc = "done" /\ err = "none"
    /\ call.criteria.COLUMNS # AllColumns
    /\ C16_Aggregations = {} /\ C17_Indexed = {} /\ C16_Items # <<>>
    /\ ~Truthy(call.criteria.GROUP)
    /\ ~call.criteria.DISTINCT
    /\ IsNone(call.criteria.LIMIT_OR_TAIL)

\* the rows of the input of the call that pass its filter
C18_FilteredRows ==
    IF RunsFilter(call.criteria)
    THEN StageFilter(call.data, call.criteria).df.rows
    ELSE call.data.rows

\* C18: for a non-aggregated, non-grouped select of named columns with no
\* DISTINCT and no LIMIT/TAIL, the result's schema is exactly the requested
\* columns in the requested order and its row count equals the row count of
\* the filtered input.
C18_NamedProjection ==
    C18_Case =>
        /\ ret.cols = [i \in 1..Len(C16_Items) |-> C16_Items[i].s]
        /\ Len(ret.rows) = Len(C18_FilteredRows)
        /\ transformed_data = ret

\* SELECT v, g WHERE v >= 1 ORDER BY v DESC on (g, v) with rows (0, 1) and
\* (1, 0): one row passes the filter, the result is (v, g) with that row
C18_Witness ==
    /\ C18_Case
    /\ call.criteria.COLUMNS = PyList(<<PyStr(cV), PyStr(cG)>>)
    /\ Truthy(call.criteria.FILTER) /\ Truthy(call.criteria.ORDER)
    /\ call.data.rows = << <<0, 1>>, <<1, 0>> >>
    /\ ret.cols = <<cV, cG>>
    /\ ret.rows = << <<1, 0>> >>
    /\ stages = <<"filter", "order", "group_or_project">>

\* the group stage of a call with GROUP BY and no ORDER BY is taken and
\* succeeds
C19_GroupStep ==
    /\ IsTransformCall /\ pc = "group_or_project" /\ pc' = StageAfter(pc)
    /\ Truthy(call.criteria.GROUP)
    /\ ~Truthy(call.criteria.ORDER)

\* the resolved group keys and the key tuple of a row of the filtered input
C19_KeyNames ==
    LET keys == group_by_columns_names(data, call.criteria.GROUP)
    IN get_unique([i \in 1..Len(keys) |-> keys[i].name])
C19_KeyOf(r) == [i \in 1..Len(C19_KeyNames) |-> Cell(data, data.rows[r], C19_KeyNames[i])]

\* the rows of the filtered input whose key tuple no earlier row has, and the
\* n-th of them
C19_FirstSeen ==
    {r \in 1..Len(data.rows) : \A q \in 1..(r - 1) : C19_KeyOf(q) # C19_KeyOf(r)}
C19_Nth(n) ==
    CHOOSE r \in C19_FirstSeen : Cardinality({q \in C19_FirstSeen : q <= r}) = n

\* the rows of the filtered input with the key tuple of the n-th output group
C19_Members(n) == {r \in 1..Len(data.rows) : C19_KeyOf(r) = C19_KeyOf(C19_Nth(n))}

\* output row n holds, for each selected column, the value of the n-th
\* first-seen key or the aggregation over that group's rows
C19_RowIsGroup(n) ==
    LET sel == convert_select_column_indices_to_name(data, call.criteria.COLUMNS)
        rows == [i \in 1..Len(data.rows) |-> data.rows[i]]
        members == SelectSeq(rows, LAMBDA row : \E r \in C19_Members(n) : data.rows[r] = row)
    IN \A i \in 1..Len(sel) :
          data'.rows[n][i] =
              IF sel[i].agg
              THEN Aggregate(sel[i].func, AggValues(data, members, sel[i].r.name))
              ELSE Cell(data, data.rows[C19_Nth(n)], sel[i].r.name)

C19_Step ==
    C19_GroupStep =>
        /\ Len(data'.rows) = Cardinality({C19_KeyOf(r) : r \in 1..Len(data.rows)})
        /\ Len(data'.rows) = Cardinality(C19_FirstSeen)
        /\ \A r \in 1..Len(data.rows) :
              Cardinality({n \in 1..Len(data'.rows) : r \in C19_Members(n)}) = 1
        /\ \A n \in 1..Len(data'.rows) : C19_RowIsGroup(n)

\* C19: with GROUP BY and no ORDER BY, every row of the filtered input falls
\* in exactly one output group, the number of output rows equals the number
\* of distinct group-key tuples, and output groups appear in the order their
\* key tuple first appears in the filtered input.
C19_GroupPartition == [][C19_Step]_vars

\* SELECT g, sum(v) GROUP BY g on rows (1, 1), (0, 1): two groups, the group
\* of key 1 first
C19_Witness ==
    /\ IsTransformCall /\ pc = "done" /\ err = "none"
    /\ call.criteria.COLUMNS = PyList(<<PyStr(cG), PyTuple(FnSum, cV)>>)
    /\ call.criteria.GROUP = PyList(<<PyStr(cG)>>)
    /\ ~Truthy(call.criteria.ORDER) /\ ~call.criteria.DISTINCT
    /\ IsNone(call.criteria.LIMIT_OR_TAIL) /\ IsNone(call.criteria.FILTER)
    /\ call.data.rows = << <<1, 1>>, <<0, 1>> >>
    /\ ret.rows = << <<1, 1>>, <<0, 1>> >>

---------------------------------------------------------------------------
(* A process serving calls one after another: the module-level slot        *)
(* transformed_data outlives each call, the locals of a call do not        *)

\* a call is over: its value or exception has reached the caller and its
\* locals are gone
CallReturns ==
    /\ pc = "done"
    /\ pc' = "idle"
    /\ call' = NoCall
    /\ ret' = NoReturn
    /\ err' = "none"
    /\ data' = NoneVal
    /\ are_select_columns_aggregation' = FALSE
    /\ stages' = <<>>
    /\ UNCHANGED <<transformed_data, planVars>>

\* the relations and criteria bundles of the calls of a session
SessionRelations ==
    {NoneVal,
     DataFrame(<<cG, cV>>, << <<0, 1>>, <<1, 0>> >>),
     DataFrame(<<cG, cV>>, << <<1, 1>> >>)}

SessionCriteria ==
    {Criteria(AllColumns, FALSE, NoneVal, NoneVal, NoneVal, NoneVal),
     Criteria(PyList(<<PyStr(cG)>>), TRUE, Cond(">=", PyStr(cV), PyInt(1)), NoneVal,
              OrderByNode(<<OrderByParameter(ColumnNameNode(cV), "DESC")>>),
              LimitOrTail("limit", PyInt(1))),
     Criteria(PyList(<<PyStr(Idx2)>>), FALSE, NoneVal, NoneVal, NoneVal, NoneVal),
     Criteria(PyList(<<PyStr(cG), PyTuple(FnSum, cV)>>), FALSE, NoneVal,
              PyList(<<PyStr(cG)>>), NoneVal, NoneVal)}

SessionTransforms ==
    /\ pc = "idle"
    /\ \E d \in SessionRelations, criteria \in SessionCriteria :
            CallTransformSelect(d, criteria)

SessionJoins ==
    /\ pc = "idle"
    /\ \E df1 \in {NoneVal, DataFrame(<<cA, cG>>, << <<0, 1>>, <<1, 0>> >>)},
          df2 \in {NewDataFrame, DataFrame(<<cB, cG>>, << <<0, 1>> >>)},
          right_col \in {cG, cA}, how \in {"inner", "cross"} :
            Join(df1, df2, cG, right_col, how)

NextSession ==
    \/ SessionTransforms
    \/ Filter
    \/ PreGroupOrder
    \/ GroupOrProject
    \/ Distinct
    \/ LimitOrTailStage
    \/ StoreAndReturn
    \/ SessionJoins
    \/ get_transformed_data
    \/ clear_transformed_data
    \/ CallReturns

SpecSession == Init /\ [][NextSession]_vars

\* C20: no process-wide mutable execution state is retained between
\* queries: after any sequence of earlier transform and join calls, completed
\* or failed, what a caller reads through get_transformed_data is what it
\* reads in a process that has served no call, namely None.
C20_NothingRetained ==
    (pc = "done" /\ call.op = "get_transformed_data") => ret = NoneVal

\* a caller reads a relation of an earlier call through get_transformed_data
C20_Witness ==
    /\ pc = "done" /\ call.op = "get_transformed_data"
    /\ ret = DataFrame(<<cG>>, << <<1>> >>)

---------------------------------------------------------------------------
(* Claims about a statement as a whole *)

\* the caller reads the slot after a statement whose join or transform call
\* raised
C21_Case ==
    /\ pc = "done" /\ call.op = "get_transformed_data"
    /\ log # <<>>
    /\ log[Len(log)].err # "none"
    /\ log[Len(log)].call.op \in {"join", "transform_select"}

\* the relations the statement's completed join and transform calls returned
C21_Earlier ==
    {log[i].ret : i \in {j \in 1..Len(log) :
                            /\ log[j].err = "none"
                            /\ log[j].call.op \in {"join", "transform_select"}}}

\* the failed call handed no relation to the caller and no load was executed
C21_NoRelationNoLoad ==
    C21_Case =>
        /\ log[Len(log)].ret = NoReturn
        /\ CallsOf("load") = <<>>

\* C21: a statement is all-or-nothing: when a join or a transform stage of a
\* statement fails, the caller gets no relation, the statement's load step is
\* never executed, and the relation computed by the statement's earlier
\* steps (for example a completed join) cannot be read afterwards through
\* the engine's interface.
C21_AllOrNothing ==
    C21_Case =>
        /\ log[Len(log)].ret = NoReturn
        /\ CallsOf("load") = <<>>
        /\ ret \notin C21_Earlier

\* a join completed, the join after it raised, and get_transformed_data
\* returns the relation of the completed join
C21_Witness ==
    /\ C21_Case
    /\ log[Len(log)].call.op = "join"
    /\ log[Len(log)].err = "MissingJoinColumn"
    /\ \E i \in 1..(Len(log) - 1) :
          /\ log[i].call.op = "join" /\ log[i].err = "none"
          /\ log[i].ret.t = "DataFrame" /\ log[i].ret.rows # <<>>
          /\ ret = log[i].ret

---------------------------------------------------------------------------
(* Two queries in one process: each joins its own relations, transforms    *)
(* the result and reads the slot back; the engine serves one call at a     *)
(* time and the calls of the two queries interleave in any order           *)

\* the relations of each query
QueryLeft(q) ==
    IF q = 1 THEN DataFrame(<<cA, cG>>, << <<0, 1>>, <<1, 0>> >>)
    ELSE DataFrame(<<cA, cG>>, << <<1, 1>> >>)
QueryRight(q) ==
    IF q = 1 THEN DataFrame(<<cB, cV>>, << <<0, 1>>, <<1, 1>> >>)
    ELSE DataFrame(<<cB, cV>>, << <<1, 0>> >>)

QueryCriteria ==
    SessionCriteria \cup
    {Criteria(PyList(<<PyStr(cV)>>), FALSE, NoneVal, PyList(<<PyStr(cG)>>),
              NoneVal, NoneVal)}

\* the engine is free and a query that has calls left gets to make its next
\* one
QueryScheduled ==
    /\ pc = "idle" /\ queries.running = 0
    /\ \E q \in QueryIds :
          /\ queries.at[q] # "end"
          /\ queries' = [queries EXCEPT !.running = q]
    /\ UNCHANGED <<engineVars, stmt, plan, ip, env, log, tokens, raised>>

\* the running query joins its two relations
QueryJoins ==
    /\ pc = "idle" /\ queries.running # 0
    /\ queries.at[queries.running] = "join"
    /\ \E right_col \in {cB, cG}, how \in {"inner", "left"} :
          Join(QueryLeft(queries.running), QueryRight(queries.running),
               cA, right_col, how)

\* the running query transforms the relation its join returned
QueryTransforms ==
    /\ pc = "idle" /\ queries.running # 0
    /\ queries.at[queries.running] = "transform"
    /\ \E criteria \in QueryCriteria :
          CallTransformSelect(queries.val[queries.running], criteria)

\* the running query reads the slot back
QueryReads ==
    /\ pc = "idle" /\ queries.running # 0
    /\ queries.at[queries.running] = "read"
    /\ get_transformed_data

\* the slot as the calls of one query alone leave it
AloneAfter(slot) ==
    IF call.op \in {"join", "transform_select"} /\ err = "none" THEN ret ELSE slot

\* the call of the running query is over: the query holds what it got, and a
\* call that raised sends it to its read
QueryCallReturns ==
    /\ pc = "done" /\ queries.running # 0
    /\ LET q == queries.running
       IN queries' =
            [running |-> 0,
             at |-> [queries.at EXCEPT ![q] =
                        IF call.op = "get_transformed_data" THEN "end"
                        ELSE IF err # "none" \/ call.op = "transform_select" THEN "read"
                        ELSE "transform"],
             val |-> [queries.val EXCEPT ![q] = IF err = "none" THEN ret ELSE @],
             alone |-> [queries.alone EXCEPT ![q] = AloneAfter(@)],
             seen |-> [queries.seen EXCEPT ![q] =
                          Append(@, [call |-> call, ret |-> ret, err |-> err,
                                     alone |-> AloneAfter(queries.alone[q])])]]
    /\ pc' = "idle"
    /\ call' = NoCall
    /\ ret' = NoReturn
    /\ err' = "none"
    /\ data' = NoneVal
    /\ are_select_columns_aggregation' = FALSE
    /\ stages' = <<>>
    /\ UNCHANGED <<transformed_data, stmt, plan, ip, env, log, tokens, raised>>

NextQueries ==
    \/ QueryScheduled
    \/ QueryJoins
    \/ QueryTransforms
    \/ Filter
    \/ PreGroupOrder
    \/ GroupOrProject
    \/ Distinct
    \/ LimitOrTailStage
    \/ StoreAndReturn
    \/ QueryReads
    \/ QueryCallReturns

SpecQueries == Init /\ [][NextQueries]_vars

\* what a call of a query gives when no other query shares the process
C22_Alone(e) ==
    CASE e.call.op = "join" ->
            LET r == join(e.call.df1, e.call.df2, e.call.left_col, e.call.right_col,
                          e.call.how, NoneVal)
            IN e.ret = r.ret /\ e.err = r.err
      [] e.call.op = "transform_select" ->
            LET r == transform_select(e.call.data, e.call.criteria, NoneVal)
            IN e.ret = r.ret /\ e.err = r.err
      [] OTHER -> e.ret = e.alone /\ e.err = "none"

\* C22: when two independent queries on separate relations are executed
\* with their join and transform calls interleaved in any order, each
\* query's outcome, and every value it reads back from the engine after its
\* own transform (get_transformed_data included), equals what it gets when
\* run alone.
C22_Independent ==
    \A q \in QueryIds : \A i \in 1..Len(queries.seen[q]) : C22_Alone(queries.seen[q][i])

\* query 1 transformed its relation, query 2 transformed its own afterwards,
\* and query 1 read back the relation of query 2
C22_Witness ==
    /\ Len(queries.seen[1]) = 3 /\ Len(queries.seen[2]) >= 2
    /\ queries.seen[1][2].call.op = "transform_select"
    /\ queries.seen[1][2].err = "none"
    /\ queries.seen[2][2].call.op = "transform_select"
    /\ queries.seen[2][2].err = "none"
    /\ queries.seen[1][3].call.op = "get_transformed_data"
    /\ queries.seen[1][3].ret = queries.seen[2][2].ret
    /\ queries.seen[1][3].ret # queries.seen[1][2].ret

\* the stepwise run of transform_select and its outcome as one function agree
TransformSelectAgrees ==
    (IsTransformCall /\ pc = "done") =>
        LET r == transform_select(call.data, call.criteria, NoneVal)
        IN r.err = err /\ r.ret = ret

---------------------------------------------------------------------------
(* Claims about extract and load *)

\* the exception a failed extract or load call of the run raised
C23_Exception(e) ==
    IF e.call.op = "extract" THEN extract(e.call.type, e.call.path).exc
    ELSE load(e.call.data, e.call.type, e.call.path).exc

\* the exception is the core's wrapper and names the type and the path
C23_Names(x, type, path) ==
    /\ x.t = "Exception"
    /\ x.source_type = type /\ x.data_destination = path
    /\ x.cause.t = "AdapterException"

C23_Failed(op) ==
    {i \in 1..Len(log) : log[i].call.op = op /\ log[i].err # "none"}

\* a failure of load is wrapped with the destination type and path
C23_LoadWrapped ==
    \A i \in C23_Failed("load") :
        C23_Names(C23_Exception(log[i]), log[i].call.type, log[i].call.path)

\* C23: a failure raised by an adapter is wrapped by the core with the
\* identifiers of the offending source or destination, for extract as well
\* as for load: an extract failure names the source type and path, a load
\* failure names the destination type and path.
C23_AdapterFailureWrapped ==
    \A i \in C23_Failed("extract") \cup C23_Failed("load") :
        C23_Names(C23_Exception(log[i]), log[i].call.type, log[i].call.path)

\* an extract of the run failed in the adapter and the exception that left
\* extract is the adapter's own
C23_Witness ==
    /\ C23_Failed("extract") # {}
    /\ \E i \in C23_Failed("extract") :
          /\ log[i].err = "AdapterError"
          /\ C23_Exception(log[i]) = AdapterException("AdapterError")

\* the extract and load calls of the run, in order
C24_Calls == SelectSeq(log, LAMBDA e : e.call.op \in {"extract", "load"})

\* the literal a call was generated for: extracts follow the sources in the
\* order written, the load is the INTO
C24_LiteralOf(k) ==
    IF C24_Calls[k].call.op = "load" THEN stmt.into.s ELSE WrittenSource(k)

\* the text before and after the first ':' of a literal
C24_Type(lit) == SubSeq(lit, 1, IndexOf(lit, ":") - 1)
C24_Path(lit) == SubSeq(lit, IndexOf(lit, ":") + 1, Len(lit))

\* every call the run made got the type and the path of its literal
C24_CallsUnchanged ==
    \A k \in 1..Len(C24_Calls) :
        /\ C24_Calls[k].call.type = C24_Type(C24_LiteralOf(k))
        /\ C24_Calls[k].call.path = C24_Path(C24_LiteralOf(k))

\* the generated code is not well-formed, so no literal reaches its call
C24_NeverRuns == Built /\ ip = 0 /\ err = "SyntaxError"

\* C24: for every datasource literal type:path in FROM, JOIN or INTO, the
\* type and path that reach extract or load when the plan runs are exactly
\* the text before and after the first ':' of the literal, unchanged, also
\* when the path itself contains ':', '|', a backslash or a quote character.
C24_PassedUnchanged ==
    /\ C24_CallsUnchanged
    /\ ~C24_NeverRuns

\* the path x\t of the FROM literal reached extract as x followed by a tab
C24_Witness ==
    /\ Built /\ log # <<>>
    /\ WrittenSource(1) = Lit(tCsv, pBackslash)
    /\ log[1].call.op = "extract"
    /\ log[1].call.path = <<"x", "\t">>

---------------------------------------------------------------------------
(* Claims about the grammar actions *)

\* the kind each keyword form gives
C25_Kinds ==
    /\ join_type(<<"JOIN">>) = "inner" /\ join_type(<<"INNER", "JOIN">>) = "inner"
    /\ join_type(<<"LEFT", "JOIN">>) = "left"
    /\ join_type(<<"LEFT", "OUTER", "JOIN">>) = "left"
    /\ join_type(<<"RIGHT", "JOIN">>) = "right"
    /\ join_type(<<"RIGHT", "OUTER", "JOIN">>) = "right"
    /\ join_type(<<"FULL", "JOIN">>) = "outer"
    /\ join_type(<<"FULL", "OUTER", "JOIN">>) = "outer"

\* C25: the join kind the parser hands to the plan is always one of inner,
\* left, right, outer: JOIN with no qualifier and INNER JOIN give inner, LEFT
\* [OUTER] gives left, RIGHT [OUTER] gives right, FULL [OUTER] gives outer; so
\* a join step of a plan built from a parsed statement never fails with
\* InvalidJoinKind.
C25_JoinKind ==
    /\ C25_Kinds
    /\ IsSelect =>
          \A i \in 1..Len(stmt.joins) : stmt.joins[i].type \in {"inner", "left", "right", "outer"}
    /\ \A i \in StepsOf("join") : plan[i].how \in {"inner", "left", "right", "outer"}
    /\ \A i \in 1..Len(log) : log[i].err # "InvalidJoinKind"
    /\ (pc = "done" /\ call.op = "join") => err # "InvalidJoinKind"

\* a statement with a FULL JOIN ran to its end and its join was made with the
\* kind outer
C25_Witness ==
    /\ Finished
    /\ \E i \in 1..Len(log) :
          /\ log[i].call.op = "join" /\ log[i].call.how = "outer"
          /\ log[i].err = "none" /\ log[i].ret.rows # <<>>

---------------------------------------------------------------------------
(* Claims about where the ordering is applied *)

\* the select list of the call is made only of aggregations
C26_OnlyAggregationsSelected ==
    call.criteria.COLUMNS # AllColumns /\ C16_Plain = {}

\* the rows of `after` are the rows of `before`, each as often, in an order
\* that agrees with the first ORDER BY parameter
C26_Sorted(before, after, order) ==
    LET c == IndexOf(before.cols, OrderParamName(before, order.parameters[1].parameter).name)
        desc == order.parameters[1].way = "DESC"
        count(rows, r) == Cardinality({i \in 1..Len(rows) : rows[i] = r})
    IN /\ after.cols = before.cols
       /\ Len(after.rows) = Len(before.rows)
       /\ \A r \in Range(before.rows) : count(after.rows, r) = count(before.rows, r)
       /\ \A i \in 1..Len(after.rows) : \A j \in (i + 1)..Len(after.rows) :
             IF desc THEN after.rows[i][c] >= after.rows[j][c]
             ELSE after.rows[i][c] <= after.rows[j][c]

\* the stage before the projection sorts exactly when there is no GROUP BY,
\* an ORDER BY is present and the select list is not only aggregations
C26_OrderStep ==
    (IsTransformCall /\ pc = "order" /\ pc' # pc) =>
        LET sorts == /\ ~Truthy(call.criteria.GROUP)
                     /\ Truthy(call.criteria.ORDER)
                     /\ ~C26_OnlyAggregationsSelected
        IN /\ (stages' # stages) <=> sorts
           /\ (sorts /\ pc' # "done") => C26_Sorted(data, data', call.criteria.ORDER)
           /\ ~sorts => data' = data

\* with a GROUP BY the rows reach the grouping unsorted and the ORDER BY is
\* applied to the grouped result
C26_GroupStep ==
    (/\ IsTransformCall /\ pc = "group_or_project" /\ pc' = StageAfter(pc)
     /\ Truthy(call.criteria.GROUP)) =>
        LET keys == group_by_columns_names(data, call.criteria.GROUP)
            sel == convert_select_column_indices_to_name(data, call.criteria.COLUMNS)
            grouped == apply_groupby(data, sel,
                                     get_unique([i \in 1..Len(keys) |-> keys[i].name])).df
        IN /\ "order" \notin Range(stages)
           /\ data = IF RunsFilter(call.criteria)
                     THEN StageFilter(call.data, call.criteria).df ELSE call.data
           /\ IF Truthy(call.criteria.ORDER)
              THEN C26_Sorted(grouped, data', call.criteria.ORDER)
              ELSE data' = grouped

\* a select list of aggregations only, without GROUP BY: the call ends as the
\* same call without its ORDER BY
C26_OnlyAggregations ==
    (/\ IsTransformCall /\ pc = "done" /\ ~IsNone(call.data)
     /\ ~Truthy(call.criteria.GROUP) /\ C26_OnlyAggregationsSelected) =>
        LET r == transform_select(call.data, [call.criteria EXCEPT !.ORDER = NoneVal],
                                  NoneVal)
        IN /\ "order" \notin Range(stages)
           /\ err = r.err /\ ret = r.ret

\* C26: rows are sorted before projection exactly when there is no GROUP BY,
\* an ORDER BY is present and the select list is not made only of
\* aggregations; when a GROUP BY is present the raw rows are never sorted and
\* the ORDER BY is applied to the grouped result only; when the select list
\* is only aggregations without GROUP BY the ORDER BY is not applied at all.
C26_OrderPlacement ==
    /\ []C26_OnlyAggregations
    /\ [][C26_OrderStep /\ C26_GroupStep]_vars

\* SELECT sum(v) ORDER BY v DESC without GROUP BY returned its one row and no
\* ordering stage ran
C26_Witness ==
    /\ IsTransformCall /\ pc = "done" /\ err = "none"
    /\ call.criteria.COLUMNS = PyList(<<PyTuple(FnSum, cV)>>)
    /\ ~Truthy(call.criteria.GROUP) /\ Truthy(call.criteria.ORDER)
    /\ call.data.rows = << <<0, 0>>, <<1, 1>> >>
    /\ stages = <<"group_or_project">>
    /\ Len(ret.rows) = 1

\* the leaf equalities of an ON condition
RECURSIVE C27_Leaves(_)
C27_Leaves(on) ==
    IF IsComposite(on) THEN C27_Leaves(on.left) \cup C27_Leaves(on.right) ELSE {on}

\* the JOIN clauses of the statement whose condition is combined with AND / OR
C27_Composite == {n \in 1..Len(stmt.joins) : IsComposite(stmt.joins[n].on)}

\* C27: for a JOIN clause whose ON condition combines several equalities
\* with AND/OR, the join step the plan builder emits uses the left and right
\* column of one single leaf equality of the condition tree and ignores the
\* rest, so the step still names two columns.
C27_SingleLeaf ==
    Built =>
        \A n \in C27_Composite :
            \E leaf \in C27_Leaves(stmt.joins[n].on) :
                /\ plan[NthStep("join", n)].left_col = leaf.left
                /\ plan[NthStep("join", n)].right_col = leaf.right

\* JOIN {csv:b} ON a = b AND g = v: the join statement carries the text of
\* the two dicts and the generated code is not well-formed
C27_Witness ==
    /\ Built /\ C27_Composite = {1} /\ ip = 0 /\ err = "SyntaxError"
    /\ stmt.joins[1].on.operator = <<"A", "N", "D">>
    /\ plan[NthStep("join", 1)].left_col = DictRepr(on_conditions_base(cA, cB))
    /\ plan[NthStep("join", 1)].right_col = DictRepr(on_conditions_base(cG, cV))

\* the ORDER BY of the statement applies to the wildcard an aggregation
\* function other than size
C28_WildcardInOrderBy ==
    /\ IsSelect /\ ~IsNone(stmt.order)
    /\ \E i \in 1..Len(stmt.order.parameters) :
          LET param == stmt.order.parameters[i].parameter
          IN /\ param.t = "AggregationNode"
             /\ param.column = PyStr(cStar)
             /\ param.function # FnSize

\* C28: an aggregation function other than the counting function applied to
\* the wildcard inside an ORDER BY parameter is rejected at parse time with a
\* syntax error, the same as in the select list.
C28_OrderByWildcardRejected ==
    C28_WildcardInOrderBy => plan = <<>> /\ err = "SyntaxError" /\ log = <<>>

\* SELECT size(*) FROM {csv:a} ORDER BY sum(*) was parsed into a plan whose
\* transform step carries the aggregation of "*", and the plan ran to its end
C28_Witness ==
    /\ C28_WildcardInOrderBy /\ Built
    /\ stmt.order.parameters[1].parameter = AggregationNode(FnSum, PyStr(cStar))
    /\ plan[Len(plan)].op = "transform_select"
    /\ plan[Len(plan)].criteria.ORDER = stmt.order
    /\ ip = Len(plan) + 1 /\ err = "none"

\* a call of the session comes to its end in this step
C29_Finishes == pc # "done" /\ pc' = "done"

\* what each step does to the slot: a transform_select or join that returns
\* stores the value it returns, one that raises leaves the slot alone, clear
\* empties it, get_transformed_data hands it out untouched, and no step in
\* the middle of a call or between calls writes it
C29_Step ==
    IF C29_Finishes
    THEN CASE call'.op \in {"transform_select", "join"} ->
                 IF err' = "none" THEN ret' # NoReturn /\ transformed_data' = ret'
                 ELSE transformed_data' = transformed_data
           [] call'.op = "clear_transformed_data" -> transformed_data' = NoneVal
           [] call'.op = "get_transformed_data" ->
                 ret' = transformed_data /\ transformed_data' = transformed_data
           [] OTHER -> transformed_data' = transformed_data
    ELSE transformed_data' = transformed_data

\* C29: after any sequence of transform_select, join and
\* clear_transformed_data calls, get_transformed_data returns the value
\* returned by the most recent successful transform_select or join since the
\* last clear, or nothing when there was none; a call that fails leaves the
\* slot exactly as it was.
C29_MostRecentSuccess ==
    /\ transformed_data = NoneVal
    /\ [][C29_Step]_vars

\* a join raised while the slot held the relation an earlier call returned,
\* and the slot still holds it
C29_Witness ==
    /\ pc = "done" /\ call.op = "join" /\ err # "none"
    /\ transformed_data = DataFrame(<<cG>>, << <<1>> >>)

\* the limit/tail stage of a call whose n is an integer above zero
C30_Case ==
    /\ IsTransformCall /\ pc = "limit" /\ pc' # pc
    /\ call.criteria.LIMIT_OR_TAIL.t = "tuple"
    /\ call.criteria.LIMIT_OR_TAIL.number.t = "int"
    /\ call.criteria.LIMIT_OR_TAIL.number.v > 0

C30_Step ==
    LET lt == call.criteria.LIMIT_OR_TAIL
        n == lt.number.v
        r == Len(data.rows)
        m == IF n < r THEN n ELSE r
    IN C30_Case =>
            /\ pc' = "store"
            /\ err' = "none"
            /\ data'.cols = data.cols
            /\ Len(data'.rows) = m
            /\ \A i \in 1..m :
                  data'.rows[i] = IF lt.operator = "limit" THEN data.rows[i]
                                  ELSE data.rows[r - m + i]

\* C30: in the limit/tail stage only the exact kind value "limit" keeps the
\* first n rows; for n > 0 every other kind value, including a
\* differently-cased spelling of the LIMIT keyword as passed through by the
\* parser, is treated as tail and keeps the last n rows, and no kind value is
\* rejected.
C30_OnlyExactLimit == [][C30_Step]_vars

\* the kind "LIMIT" with n = 1 on two different rows returned the second one
C30_Witness ==
    /\ IsTransformCall /\ pc = "done" /\ err = "none"
    /\ call.criteria.LIMIT_OR_TAIL = LimitOrTail("LIMIT", PyInt(1))
    /\ stages = <<"limit">>
    /\ Len(call.data.rows) = 2
    /\ call.data.rows[1] # call.data.rows[2]
    /\ ret = DataFrame(call.data.cols, <<call.data.rows[2]>>)

=============================================================================
